---- MODULE Spec2Model ----
(***************************************************************************)
(* The double-entry ledger service of LedgrStack (lib/ledger/ledgerService) *)
(* over a PostgreSQL store reached through Prisma.                          *)
(*                                                                          *)
(* Storage is modelled as the committed database `db` plus, per caller, the *)
(* uncommitted writes of its open interactive transactions (units of work): *)
(* `unit[p]` for the unit createExpenseTransaction / reverseTransaction run  *)
(* in, and `inner[p]` for the unit ensureDefaultAccounts opens for itself.   *)
(* Isolation is read committed: a statement of a unit reads the committed   *)
(* rows and the unit's own writes; an insert whose unique key is held by an *)
(* uncommitted row of another unit waits for that unit; a unique key that   *)
(* is already committed raises the duplicate-key error; an update of a row  *)
(* another unit has updated waits for it and then overwrites.               *)
(* Every `await` on the store is one step of the caller.                    *)
(*                                                                          *)
(* Around the service: the expense handlers (POST, PATCH, DELETE), which    *)
(* run guardPeriodNotLocked and then open the unit they hand to the         *)
(* service; lockPeriod; and getLedgerReport, which reads committed rows.    *)
(* A handler's last statement, the commit of its unit and its writeAudit    *)
(* are one step.                                                            *)
(***************************************************************************)
EXTENDS Integers, FiniteSets, Sequences, TLC

\* ---------------------------------------------------------------- bounds
Orgs       == {"T1", "T2"}
Procs      == {"p1", "p2"}
UserKeys   == {"k1"}
NoCategory == "null"
Categories == {NoCategory, "Food"}
Amounts    == {1, 2}
Currencies == {"USD"}
Users      == {"u1", "u2"}
\* instants, by their UTC calendar fields <<year, month, day>>
Dates      == {<<2024, 1, 15>>, <<2024, 2, 1>>}
Periods    == {"2024-01", "2024-02"}
MaxCalls   == 3

\* null for a transaction identifier
NoId  == 0
\* the identifiers a caller may name, and those a row may get (a PATCH
\* creates two transactions)
TxIds  == 1..MaxCalls
RowIds == 1..(2 * MaxCalls)

\* ------------------------------------------------------------ row shapes
\* idempotency keys: <<kind, n>>; "user" keys are caller supplied, the others
\* carry randomUUID(), modelled by the fresh row identifier
UserKey(k)      == <<"user", k>>
FreshKey(kind)  == <<kind, NoId>>

CashName   == "Cash"
UncatName  == "Uncategorized Expense"

Account(org, name, type, isSystem) ==
    [org |-> org, name |-> name, type |-> type, isSystem |-> isSystem]

\* !category: null, undefined and the empty string
Falsy(category) == category \in {NoCategory, ""}

ExpenseAccountName(category) ==
    IF Falsy(category) THEN UncatName ELSE "Expense: " \o category

\* a unit's uncommitted writes: inserted rows and reversedByTransactionId
\* updates (links)
EmptyUnit == [accts |-> {}, txs |-> {}, posts |-> {}, exps |-> {}, links |-> {},
              locks |-> {}]
EmptyDb   == [accts |-> {}, txs |-> {}, posts |-> {}, exps |-> {}, locks |-> {}]

NoDate == <<0, 0, 0>>
NoOrg == ""
NoRole == ""
NoOrgCall == [op |-> "", user |-> "", org |-> NoOrg, minRole |-> NoRole,
              result |-> "", err |-> "", status |-> 0, before |-> NoOrg]

\* the organizationId a request body may carry: none unless the workload says
BodyOrgs(W) == IF "bodyOrgs" \in DOMAIN W THEN W.bodyOrgs ELSE {NoOrg}

\* vendor: vendor || null
NoVendor == "null"

\* the optional fields of ReportFilters, "" and NoDate standing for undefined
NoFilters == [startDate |-> <<0, 0, 0>>, endDate |-> <<0, 0, 0>>, category |-> "",
              vendor |-> "", groupBy |-> ""]

\* the vendors a call may carry: none unless the workload says
Vendors(W) == IF "vendors" \in DOMAIN W THEN W.vendors ELSE {NoVendor}

\* route: the handler the call runs under ("none" for a direct call)
NoCall == [op |-> "none", org |-> "T1", key |-> FreshKey("none"), category |-> NoCategory,
           amountCents |-> 1, currency |-> "USD", transactionId |-> NoId, nested |-> FALSE,
           route |-> "none", occurredAt |-> NoDate, now |-> NoDate, user |-> "u1",
           period |-> "", expense |-> NoId, newDate |-> NoDate, newAmount |-> 0,
           bodyOrg |-> NoOrg, vendor |-> NoVendor, filters |-> NoFilters]
\* todo: the expenses the backfill's findMany returned and has not taken yet
NoLocal == [account |-> "", tx |-> NoId, postings |-> {}, todo |-> {}]

\* toISOString().slice(0, 7): the UTC year, "-", the month on two digits
Pad2(n) == IF n < 10 THEN "0" \o ToString(n) ELSE ToString(n)
PeriodOf(date) == ToString(date[1]) \o "-" \o Pad2(date[2])

VARIABLES
    db,       \* committed rows: accounts, transactions, postings, expenses
    unit,     \* unit[p]: uncommitted writes of p's unit of work
    inner,    \* inner[p]: uncommitted accounts of p's ensureDefaultAccounts unit
    audit,    \* audit log rows (written outside every unit)
    pc,       \* pc[p]: where caller p stands
    call,     \* call[p]: the arguments of p's current call
    local,    \* local[p]: values p has read so far
    result,   \* result[p]: identifier returned (NoId if none)
    err,      \* err[p]: the error p's call ended with ("" if none)
    prior,    \* prior[p]: what was committed for p's arguments when the call began
    landed,   \* landed[p]: rows written by p's current call that were committed
    calls,    \* number of calls made so far
    sinkUp,   \* whether the audit table accepts writes in this run
    report,   \* what getLedgerReport last returned, while nothing has run since
    membership, \* membership rows: user, organization, role, creation order
    activeOrg,  \* activeOrg[u]: the activeOrgId column of user u (NoOrg if null)
    orgCall     \* the last organization-core call: arguments and outcome

vars == <<db, unit, inner, audit, pc, call, local, result, err, prior, landed, calls, sinkUp,
          report, membership, activeOrg, orgCall>>

\* ------------------------------------------------------------- the store
\* (an update that also moves the reversed row's occurrence date)
ApplyLinksRedating(txs, links) ==
    { IF \E l \in links : l[1] = t.id
        THEN [t EXCEPT !.rev = (CHOOSE l \in links : l[1] = t.id)[2],
                       !.occurredAt = NoDate]
        ELSE t : t \in txs }

\* reversedByTransactionId updates applied to a set of transaction rows
ApplyLinks(txs, links) ==
    { IF \E l \in links : l[1] = t.id
        THEN [t EXCEPT !.rev = (CHOOSE l \in links : l[1] = t.id)[2]]
        ELSE t : t \in txs }

\* what a statement of p's unit reads: committed rows and p's own writes
View(p) ==
    [accts |-> db.accts \cup unit[p].accts,
     txs   |-> ApplyLinks(db.txs \cup unit[p].txs, unit[p].links),
     posts |-> db.posts \cup unit[p].posts,
     exps  |-> db.exps \cup unit[p].exps,
     locks |-> db.locks \cup unit[p].locks]

\* the database after p's unit commits
Committed(p) ==
    [accts |-> db.accts \cup unit[p].accts,
     txs   |-> ApplyLinks(db.txs \cup unit[p].txs, unit[p].links),
     posts |-> db.posts \cup unit[p].posts,
     exps  |-> db.exps \cup unit[p].exps,
     locks |-> db.locks \cup unit[p].locks]

Others(p) == Procs \ {p}

\* identifiers in use, committed or not (cuid(): never one that exists)
UsedIds == {t.id : t \in db.txs} \cup UNION { {t.id : t \in unit[q].txs} : q \in Procs }
FreshId == CHOOSE i \in RowIds : i \notin UsedIds /\ \A j \in RowIds : j < i => j \in UsedIds

\* unique (organizationId, name) on LedgerAccount
AccountHeldByOther(p, org, name) ==
    \E q \in Others(p) : \E a \in unit[q].accts \cup inner[q] : a.org = org /\ a.name = name
AccountCommitted(org, name) ==
    \E a \in db.accts : a.org = org /\ a.name = name

\* unique (organizationId, idempotencyKey) on LedgerTransaction
KeyHeldByOther(p, org, key) ==
    \E q \in Others(p) : \E t \in unit[q].txs : t.org = org /\ t.key = key
KeyCommitted(org, key) ==
    \E t \in db.txs : t.org = org /\ t.key = key

\* a row whose update by another open unit has not committed yet
RowLockedByOther(p, id) ==
    \E q \in Others(p) : \E l \in unit[q].links : l[1] = id

\* unique (organizationId, period) on LedgerPeriodLock
LockHeldByOther(p, org, period) ==
    \E q \in Others(p) : \E l \in unit[q].locks : l.org = org /\ l.period = period
LockCommitted(org, period) ==
    \E l \in db.locks : l.org = org /\ l.period = period

\* --------------------------------------------------------- control state
NoReport == [org |-> "", total |-> [units |-> 0, hundredths |-> 0], count |-> 0]

Resting(p) == pc[p] \in {"idle", "done", "failed"}

Init ==
    /\ db = EmptyDb
    /\ unit = [p \in Procs |-> EmptyUnit]
    /\ inner = [p \in Procs |-> {}]
    /\ audit = {}
    /\ pc = [p \in Procs |-> "idle"]
    /\ call = [p \in Procs |-> NoCall]
    /\ local = [p \in Procs |-> NoLocal]
    /\ result = [p \in Procs |-> NoId]
    /\ err = [p \in Procs |-> ""]
    /\ prior = [p \in Procs |-> NoId]
    /\ landed = [p \in Procs |-> EmptyDb]
    /\ calls = 0
    /\ sinkUp \in BOOLEAN
    /\ membership = {}
    /\ activeOrg = [u \in Users |-> NoOrg]
    /\ orgCall = NoOrgCall
    /\ report = NoReport

\* the call's arguments are taken and its first statement is next
Begin(p, c, first, before) ==
    /\ Resting(p)
    /\ calls < MaxCalls
    /\ calls' = calls + 1
    /\ call' = [call EXCEPT ![p] = c]
    /\ pc' = [pc EXCEPT ![p] = first]
    /\ local' = [local EXCEPT ![p] = NoLocal]
    /\ result' = [result EXCEPT ![p] = NoId]
    /\ err' = [err EXCEPT ![p] = ""]
    /\ prior' = [prior EXCEPT ![p] = before]
    /\ landed' = [landed EXCEPT ![p] = EmptyDb]
    /\ UNCHANGED <<db, unit, inner, audit>>

\* the statements inside the try block of the backfill's loop over expenses
BackfillTry ==
    {"b_find", "c_lookup", "e_cash", "e_cash_create", "e_uncat", "e_uncat_create",
     "e_commit", "c_account", "c_account_create", "c_cash", "c_tx", "c_postings",
     "c_audit", "b_commit", "b_link"}

Caught(p) ==
    call[p].route = "backfill" /\ call[p].expense # NoId /\ pc[p] \in BackfillTry

\* an error propagates out of every open $transaction callback: both units
\* roll back and the call rejects; the backfill catches the error of one
\* expense, logs it and goes on with the next
Throw(p, e) ==
    /\ unit' = [unit EXCEPT ![p] = EmptyUnit]
    /\ inner' = [inner EXCEPT ![p] = {}]
    /\ pc' = [pc EXCEPT ![p] = IF Caught(p) THEN "b_next" ELSE "failed"]
    /\ err' = [err EXCEPT ![p] = e]
    /\ result' = [result EXCEPT ![p] = NoId]
    /\ local' = [local EXCEPT ![p] = IF Caught(p) THEN [NoLocal EXCEPT !.todo = local[p].todo]
                                                 ELSE NoLocal]
    /\ UNCHANGED <<db, call, prior, landed, calls>>

Goto(p, next) == pc' = [pc EXCEPT ![p] = next]

\* (an audit write whose failure is not caught)
CreateAuditLogUncaught(org, action, entity) ==
    /\ sinkUp
    /\ audit' = audit \cup {[org |-> org, action |-> action, entity |-> entity]}

\* createAuditLog: one row through the global client, outside every unit; a
\* failure of the write is caught and logged
CreateAuditLog(org, action, entity) ==
    IF sinkUp
      THEN audit' = audit \cup {[org |-> org, action |-> action, entity |-> entity]}
      ELSE audit' = audit

\* prisma.$transaction resolves: the unit's writes become committed rows
Commit(p) ==
    /\ db' = Committed(p)
    /\ landed' = [landed EXCEPT ![p] =
                    [accts |-> @.accts \cup unit[p].accts,
                     txs   |-> @.txs \cup {t.id : t \in unit[p].txs},
                     posts |-> @.posts \cup unit[p].posts,
                     exps  |-> @.exps \cup unit[p].exps,
                     locks |-> @.locks \cup unit[p].locks]]
    /\ unit' = [unit EXCEPT ![p] = EmptyUnit]
    /\ pc' = [pc EXCEPT ![p] = "done"]
    /\ UNCHANGED <<inner, audit, call, local, result, err, prior, calls>>

\* ------------------------------------------------- ensureDefaultAccounts
\* a direct call (the backfill and the self-test call it so)
EnsureDefaultAccounts(p, W) ==
    \E org \in W.orgs :
        Begin(p, [NoCall EXCEPT !.op = "ensure", !.org = org], "e_cash",
              Cardinality({a \in db.accts : a.org = org /\ a.name \in {CashName, UncatName}}))

\* what a statement of the unit ensureDefaultAccounts opened reads
InnerAccounts(p) == db.accts \cup inner[p]

\* (a lookup that never finds the account)
DefaultFindAbsent(p, name, absent, present) ==
    /\ Goto(p, absent)
    /\ UNCHANGED <<db, unit, inner, audit, call, local, result, err, prior, landed, calls>>

\* ledgerAccount.findUnique({organizationId, name}) inside the unit
DefaultFind(p, name, absent, present) ==
    /\ IF \E a \in InnerAccounts(p) : a.org = call[p].org /\ a.name = name
         THEN Goto(p, present)
         ELSE Goto(p, absent)
    /\ UNCHANGED <<db, unit, inner, audit, call, local, result, err, prior, landed, calls>>

DefaultCreate(p, name, type, next) ==
    /\ ~AccountHeldByOther(p, call[p].org, name)
    /\ IF AccountCommitted(call[p].org, name)
         THEN Throw(p, "DuplicateAccount") /\ UNCHANGED audit
         ELSE /\ inner' = [inner EXCEPT ![p] = @ \cup {Account(call[p].org, name, type, TRUE)}]
              /\ CreateAuditLog(call[p].org, "ACCOUNT_CREATED", name)
              /\ Goto(p, next)
              /\ UNCHANGED <<db, unit, call, local, result, err, prior, landed, calls>>

EnsureFindCash(p) ==
    /\ pc[p] = "e_cash"
    /\ DefaultFind(p, CashName, "e_cash_create", "e_uncat")

EnsureCreateCash(p) ==
    /\ pc[p] = "e_cash_create"
    /\ DefaultCreate(p, CashName, "ASSET", "e_uncat")

EnsureFindUncategorized(p) ==
    /\ pc[p] = "e_uncat"
    /\ DefaultFind(p, UncatName, "e_uncat_create", "e_commit")

EnsureCreateUncategorized(p) ==
    /\ pc[p] = "e_uncat_create"
    /\ DefaultCreate(p, UncatName, "EXPENSE", "e_commit")

\* where ensureDefaultAccounts returns to: its caller, the backfill's loop
\* over organizations, or createExpenseTransaction
AfterEnsure(p) ==
    IF call[p].op = "ensure" THEN "done"
    ELSE IF call[p].route = "backfill" /\ call[p].expense = NoId THEN "b_scan"
    ELSE "c_account"

\* the unit ensureDefaultAccounts opened commits on its own
EnsureCommit(p) ==
    /\ pc[p] = "e_commit"
    /\ db' = [db EXCEPT !.accts = @ \cup inner[p]]
    /\ landed' = [landed EXCEPT ![p].accts = @ \cup inner[p]]
    /\ inner' = [inner EXCEPT ![p] = {}]
    /\ Goto(p, AfterEnsure(p))
    /\ UNCHANGED <<unit, audit, call, local, result, err, prior, calls>>

\* ----------------------------------------------- createExpenseTransaction
\* a key the caller chose is stored as given; one made with randomUUID() is
\* unlike every other (the row's own identifier stands for it)
StoredKey(key, id) == IF key[1] \in {"user", "backfill:expense"} THEN key ELSE <<key[1], id>>

\* (a lookup that only ever matches reversal rows)
ExistingForAmongReversals(p, org, key) ==
    {t \in View(p).txs : t.org = org /\ t.key = key /\ t.orig # NoId}

\* (a lookup that never finds a row)
ExistingForNothing(p, org, key) == {}

ExistingFor(p, org, key) == {t \in View(p).txs : t.org = org /\ t.key = key}

\* a standalone call: the call opens its own unit
CreateExpenseTransaction(p, W) ==
    \E org \in W.orgs, k \in W.keys, category \in W.categories, amountCents \in W.amounts,
       currency \in Currencies, occurredAt \in W.dates, user \in W.users,
       vendor \in Vendors(W) :
        LET c == [NoCall EXCEPT !.op = "create", !.org = org, !.key = UserKey(k),
                                !.vendor = vendor,
                                !.category = category, !.amountCents = amountCents,
                                !.currency = currency, !.occurredAt = occurredAt,
                                !.user = user] IN
        Begin(p, c, "c_lookup",
              IF KeyCommitted(c.org, c.key)
                THEN (CHOOSE t \in db.txs : t.org = c.org /\ t.key = c.key).id
                ELSE NoId)

\* POST /api/expenses: the route opens the unit and hands it to the call,
\* with a key made from randomUUID(); org is the actor's organization, which
\* replaces the organizationId of the body
PostExpense(p, W) ==
    \E org \in W.orgs, category \in W.categories, amountCents \in W.amounts,
       date \in W.dates, user \in W.users, bodyOrg \in BodyOrgs(W) :
        Begin(p, [NoCall EXCEPT !.op = "create", !.org = org, !.key = FreshKey("expense"),
                                !.category = category, !.amountCents = amountCents,
                                !.occurredAt = date, !.user = user,
                                !.nested = TRUE, !.route = "post", !.bodyOrg = bodyOrg],
              "g_guard", NoId)

\* where the caller goes on when createExpenseTransaction / reverseTransaction
\* returns: the commit of the call's own unit, or the handler's next statement
Returned(p) ==
    CASE call[p].route = "none"   -> "c_commit"
      [] call[p].route = "post"   -> "h_write"
      [] call[p].route = "delete" -> "h_delete"
      [] call[p].route = "delete_own" -> "r_commit"
      [] call[p].route = "backfill" -> "b_commit"
      [] call[p].route = "patch"  -> IF pc[p] \in {"r_check", "r_audit"}
                                       THEN "c_lookup" ELSE "h_update"

FindExisting(p) ==
    /\ pc[p] = "c_lookup"
    /\ LET ex == ExistingFor(p, call[p].org, call[p].key) IN
         IF ex # {}
           THEN /\ result' = [result EXCEPT ![p] = (CHOOSE t \in ex : TRUE).id]
                /\ Goto(p, Returned(p))
           ELSE /\ Goto(p, "e_cash")
                /\ UNCHANGED result
    /\ UNCHANGED <<db, unit, inner, audit, call, local, err, prior, landed, calls>>

\* a direct call of getOrCreateExpenseAccount(tx, org, category), the unit tx
\* being the caller's own
GetOrCreateExpenseAccount(p, W) ==
    \E org \in W.orgs, category \in W.categories :
        Begin(p, [NoCall EXCEPT !.op = "account", !.org = org, !.category = category],
              "c_account",
              IF \E a \in db.accts : a.org = org /\ a.name = ExpenseAccountName(category)
                THEN 1 ELSE 0)

\* a direct call of getCashAccount(tx, org)
GetCashAccountOf(p, W) ==
    \E org \in W.orgs :
        Begin(p, [NoCall EXCEPT !.op = "cash", !.org = org], "c_cash",
              IF \E a \in db.accts : a.org = org /\ a.name = CashName THEN 1 ELSE 0)

\* where getOrCreateExpenseAccount and getCashAccount return to
AfterAccount(p) == IF call[p].op = "account" THEN "c_commit" ELSE "c_cash"
AfterCash(p) == IF call[p].op = "cash" THEN "c_commit" ELSE "c_tx"

\* (a lookup that goes on to the insert whenever it finds nothing)
FindExpenseAccountAlwaysCreates(p) ==
    /\ pc[p] = "c_account"
    /\ LET name == ExpenseAccountName(call[p].category)
           found == \E a \in View(p).accts : a.org = call[p].org /\ a.name = name IN
         /\ IF found
              THEN local' = [local EXCEPT ![p].account = name] /\ Goto(p, AfterAccount(p))
              ELSE Goto(p, "c_account_create") /\ UNCHANGED local
         /\ UNCHANGED <<db, unit, inner, audit, call, result, err, prior, landed, calls>>

\* getOrCreateExpenseAccount, the lookup
FindExpenseAccount(p) ==
    /\ pc[p] = "c_account"
    /\ LET name == ExpenseAccountName(call[p].category)
           found == \E a \in View(p).accts : a.org = call[p].org /\ a.name = name IN
         IF found
           THEN /\ local' = [local EXCEPT ![p].account = name]
                /\ Goto(p, AfterAccount(p))
                /\ UNCHANGED <<db, unit, inner, audit, call, result, err, prior, landed, calls>>
           ELSE IF Falsy(call[p].category)
             THEN Throw(p, "NotFound") /\ UNCHANGED audit
             ELSE /\ Goto(p, "c_account_create")
                  /\ UNCHANGED <<db, unit, inner, audit, call, local, result, err, prior, landed, calls>>

\* getOrCreateExpenseAccount, the insert of 'Expense: <category>'
CreateExpenseAccount(p) ==
    /\ pc[p] = "c_account_create"
    /\ LET name == ExpenseAccountName(call[p].category) IN
         /\ ~AccountHeldByOther(p, call[p].org, name)
         /\ IF AccountCommitted(call[p].org, name)
              THEN Throw(p, "DuplicateAccount")
              ELSE /\ unit' = [unit EXCEPT ![p].accts =
                                 @ \cup {Account(call[p].org, name, "EXPENSE", FALSE)}]
                   /\ local' = [local EXCEPT ![p].account = name]
                   /\ Goto(p, AfterAccount(p))
                   /\ UNCHANGED <<db, inner, call, result, err, prior, landed, calls>>
    /\ UNCHANGED audit

GetCashAccount(p) ==
    /\ pc[p] = "c_cash"
    /\ IF \E a \in View(p).accts : a.org = call[p].org /\ a.name = CashName
         THEN /\ Goto(p, AfterCash(p))
              /\ UNCHANGED <<db, unit, inner, call, local, result, err, prior, landed, calls>>
         ELSE Throw(p, "NotFound")
    /\ UNCHANGED audit

TxRow(id, org, key, orig, occurredAt, vendor) ==
    [id |-> id, org |-> org, key |-> key, orig |-> orig, rev |-> NoId,
     occurredAt |-> occurredAt, vendor |-> vendor]

Posting(tx, n, org, account, direction, amountCents, currency, category) ==
    [tx |-> tx, n |-> n, org |-> org, account |-> account, direction |-> direction,
     amountCents |-> amountCents, currency |-> currency, category |-> category]

\* (the row written through the global client instead of the unit's)
CreateTransactionRowGlobalClient(p) ==
    /\ pc[p] = "c_tx"
    /\ LET id == FreshId
           key == StoredKey(call[p].key, id) IN
         /\ ~KeyHeldByOther(p, call[p].org, key)
         /\ IF KeyCommitted(call[p].org, key)
              THEN Throw(p, "DuplicateKey")
              ELSE /\ db' = [db EXCEPT !.txs = @ \cup {TxRow(id, call[p].org, key, NoId, call[p].occurredAt,
                                         IF Falsy(call[p].vendor) THEN NoVendor
                                                                  ELSE call[p].vendor)}]
                   /\ local' = [local EXCEPT ![p].tx = id]
                   /\ Goto(p, "c_postings")
                   /\ UNCHANGED <<unit, inner, call, result, err, prior, landed, calls>>
    /\ UNCHANGED audit

\* ledgerTransaction.create
CreateTransactionRow(p) ==
    /\ pc[p] = "c_tx"
    /\ LET id == FreshId
           key == StoredKey(call[p].key, id) IN
         /\ ~KeyHeldByOther(p, call[p].org, key)
         /\ IF KeyCommitted(call[p].org, key)
              THEN Throw(p, "DuplicateKey")
              ELSE /\ unit' = [unit EXCEPT ![p].txs =
                                 @ \cup {TxRow(id, call[p].org, key, NoId, call[p].occurredAt,
                                         IF Falsy(call[p].vendor) THEN NoVendor
                                                                  ELSE call[p].vendor)}]
                   /\ local' = [local EXCEPT ![p].tx = id]
                   /\ Goto(p, "c_postings")
                   /\ UNCHANGED <<db, inner, call, result, err, prior, landed, calls>>
    /\ UNCHANGED audit

\* (both legs on the expense account)
ExpensePostingsOneAccount(c, id, account) ==
    { Posting(id, 1, c.org, account, "DR", c.amountCents, c.currency, c.category),
      Posting(id, 2, c.org, account, "CR", c.amountCents, c.currency, NoCategory) }

\* DR expense with category: category || null; CR cash without category
ExpensePostings(c, id, account) ==
    { Posting(id, 1, c.org, account, "DR", c.amountCents, c.currency,
              IF Falsy(c.category) THEN NoCategory ELSE c.category),
      Posting(id, 2, c.org, CashName, "CR", c.amountCents, c.currency, NoCategory) }

RECURSIVE SumAmounts(_)
SumAmounts(ps) ==
    IF ps = {} THEN 0
    ELSE LET x == CHOOSE y \in ps : TRUE IN x.amountCents + SumAmounts(ps \ {x})

Total(posts, id, direction) ==
    SumAmounts({x \in posts : x.tx = id /\ x.direction = direction})

\* ledgerPosting.createMany, then the DR == CR check on what findMany returns
CreatePostings(p) ==
    /\ pc[p] = "c_postings"
    /\ LET posts == unit[p].posts \cup ExpensePostings(call[p], local[p].tx, local[p].account)
           seen  == db.posts \cup posts IN
         IF Total(seen, local[p].tx, "DR") # Total(seen, local[p].tx, "CR")
           THEN Throw(p, "Imbalance")
           ELSE /\ unit' = [unit EXCEPT ![p].posts = posts]
                /\ Goto(p, "c_audit")
                /\ UNCHANGED <<db, inner, call, local, result, err, prior, landed, calls>>
    /\ UNCHANGED audit

CreatedAudit(p) ==
    /\ pc[p] = "c_audit"
    /\ CreateAuditLog(call[p].org, "LEDGER_TX_CREATED", local[p].tx)
    /\ result' = [result EXCEPT ![p] = local[p].tx]
    /\ Goto(p, Returned(p))
    /\ UNCHANGED <<db, unit, inner, call, local, err, prior, landed, calls>>

\* ------------------------------------------------------ reverseTransaction
\* a standalone call: the call opens its own unit
ReverseTransaction(p, W) ==
    \E org \in W.orgs, transactionId \in TxIds, now \in W.nows, user \in W.users :
        LET c == [NoCall EXCEPT !.op = "reverse", !.org = org, !.key = FreshKey("reversal"),
                                !.transactionId = transactionId, !.now = now,
                                !.user = user] IN
        Begin(p, c, "r_load",
              IF \E t \in db.txs : t.id = c.transactionId
                THEN (CHOOSE t \in db.txs : t.id = c.transactionId).rev
                ELSE NoId)

\* (the load without the guard on reversedByTransactionId)
LoadOriginalNoReversedGuard(p) ==
    /\ pc[p] = "r_load"
    /\ LET found == {t \in View(p).txs : t.id = call[p].transactionId} IN
         IF found = {}
           THEN Throw(p, "NotFound")
           ELSE LET originalTx == CHOOSE t \in found : TRUE IN
             IF originalTx.org # call[p].org
               THEN Throw(p, "TenantMismatch")
               ELSE /\ local' = [local EXCEPT ![p].postings =
                                    {x \in View(p).posts : x.tx = originalTx.id}]
                    /\ Goto(p, "r_check")
                    /\ UNCHANGED <<db, unit, inner, call, result, err, prior, landed, calls>>
    /\ UNCHANGED audit

\* (the load answering an already reversed target with its reversal)
LoadOriginalReturnsReversal(p) ==
    /\ pc[p] = "r_load"
    /\ LET found == {t \in View(p).txs : t.id = call[p].transactionId} IN
         IF found = {}
           THEN Throw(p, "NotFound")
           ELSE LET originalTx == CHOOSE t \in found : TRUE IN
             IF originalTx.org # call[p].org
               THEN Throw(p, "TenantMismatch")
               ELSE /\ IF originalTx.rev # NoId
                         THEN /\ result' = [result EXCEPT ![p] = originalTx.rev]
                              /\ Goto(p, Returned(p))
                              /\ UNCHANGED local
                         ELSE /\ local' = [local EXCEPT ![p].postings =
                                             {x \in View(p).posts : x.tx = originalTx.id}]
                              /\ Goto(p, "r_check")
                              /\ UNCHANGED result
                    /\ UNCHANGED <<db, unit, inner, call, err, prior, landed, calls>>
    /\ UNCHANGED audit

\* (the load without the comparison of tenants)
LoadOriginalAnyTenant(p) ==
    /\ pc[p] = "r_load"
    /\ LET found == {t \in View(p).txs : t.id = call[p].transactionId} IN
         IF found = {}
           THEN Throw(p, "NotFound")
           ELSE LET originalTx == CHOOSE t \in found : TRUE IN
             IF originalTx.rev # NoId
               THEN Throw(p, "AlreadyReversed")
               ELSE /\ local' = [local EXCEPT ![p].postings =
                                    {x \in View(p).posts : x.tx = originalTx.id}]
                    /\ Goto(p, "r_check")
                    /\ UNCHANGED <<db, unit, inner, call, result, err, prior, landed, calls>>
    /\ UNCHANGED audit

\* findUnique({id}, include postings) and the three guards
LoadOriginal(p) ==
    /\ pc[p] = "r_load"
    /\ LET found == {t \in View(p).txs : t.id = call[p].transactionId} IN
         IF found = {}
           THEN Throw(p, "NotFound")
           ELSE LET originalTx == CHOOSE t \in found : TRUE IN
             IF originalTx.org # call[p].org
               THEN Throw(p, "TenantMismatch")
               ELSE IF originalTx.rev # NoId
                 THEN Throw(p, "AlreadyReversed")
                 ELSE /\ local' = [local EXCEPT ![p].postings =
                                      {x \in View(p).posts : x.tx = originalTx.id}]
                      /\ Goto(p, "r_check")
                      /\ UNCHANGED <<db, unit, inner, call, result, err, prior, landed, calls>>
    /\ UNCHANGED audit

\* findFirst({originalTransactionId, organizationId})
FindExistingReversal(p) ==
    /\ pc[p] = "r_check"
    /\ LET ex == {t \in View(p).txs :
                    t.orig = call[p].transactionId /\ t.org = call[p].org} IN
         IF ex # {}
           THEN /\ \E t \in ex : result' = [result EXCEPT ![p] = t.id]
                /\ Goto(p, Returned(p))
           ELSE /\ Goto(p, "r_create")
                /\ UNCHANGED result
    /\ UNCHANGED <<db, unit, inner, audit, call, local, err, prior, landed, calls>>

\* the storage interface names uniqueness on (tenant, idempotencyKey) and on
\* (tenant, accountName); none on the link from a reversal to its original
UniqueOriginalLink == FALSE

OriginalLinkTaken(p, id) ==
    /\ UniqueOriginalLink
    /\ \E t \in db.txs \cup UNION {unit[q].txs : q \in Others(p)} : t.orig = id

\* (a direction that is not flipped)
OppositeKept(direction) == direction

Opposite(direction) == IF direction = "DR" THEN "CR" ELSE "DR"

\* (only the DEBIT leg mirrored)
ReversalPostingsDebitOnly(postings, org, id) ==
    { Posting(id, x.n, org, x.account, "CR", x.amountCents, x.currency, x.category) :
        x \in {y \in postings : y.direction = "DR"} }

ReversalPostings(postings, org, id) ==
    { Posting(id, x.n, org, x.account, Opposite(x.direction), x.amountCents,
              x.currency, x.category) : x \in postings }

\* ledgerTransaction.create of the reversal, then ledgerPosting.createMany
\* vendor: originalTx.vendor
VendorOf(p, id) == (CHOOSE t \in View(p).txs : t.id = id).vendor

CreateReversal(p) ==
    /\ pc[p] = "r_create"
    /\ ~OriginalLinkTaken(p, call[p].transactionId)
    /\ LET id == FreshId IN
         /\ unit' = [unit EXCEPT
                ![p].txs = @ \cup {TxRow(id, call[p].org, StoredKey(FreshKey("reversal"), id),
                                         call[p].transactionId, call[p].now,
                                         VendorOf(p, call[p].transactionId))},
                ![p].posts = @ \cup ReversalPostings(local[p].postings, call[p].org, id)]
         /\ local' = [local EXCEPT ![p].tx = id]
    /\ Goto(p, "r_link")
    /\ UNCHANGED <<db, inner, audit, call, result, err, prior, landed, calls>>

\* (the link written through the global client instead of the unit's)
LinkOriginalGlobalClient(p) ==
    /\ pc[p] = "r_link"
    /\ ~RowLockedByOther(p, call[p].transactionId)
    /\ db' = [db EXCEPT !.txs = ApplyLinks(@, {<<call[p].transactionId, local[p].tx>>})]
    /\ Goto(p, "r_audit")
    /\ UNCHANGED <<unit, inner, audit, call, local, result, err, prior, landed, calls>>

\* ledgerTransaction.update({id}, reversedByTransactionId)
LinkOriginal(p) ==
    /\ pc[p] = "r_link"
    /\ ~RowLockedByOther(p, call[p].transactionId)
    /\ unit' = [unit EXCEPT ![p].links =
                  {l \in @ : l[1] # call[p].transactionId}
                    \cup {<<call[p].transactionId, local[p].tx>>}]
    /\ Goto(p, "r_audit")
    /\ UNCHANGED <<db, inner, audit, call, local, result, err, prior, landed, calls>>

ReversedAudit(p) ==
    /\ pc[p] = "r_audit"
    /\ CreateAuditLog(call[p].org, "LEDGER_TX_REVERSED", local[p].tx)
    /\ result' = [result EXCEPT ![p] = local[p].tx]
    /\ Goto(p, Returned(p))
    /\ UNCHANGED <<db, unit, inner, call, local, err, prior, landed, calls>>

\* ------------------------------------------------------- units of work
\* the standalone call's own unit commits
CommitOwnUnit(p) ==
    /\ pc[p] = "c_commit"
    /\ Commit(p)

\* what the handler's unit has written when its last statement ran
Landed(p, exps) ==
    [accts |-> landed[p].accts \cup unit[p].accts,
     txs   |-> landed[p].txs \cup {t.id : t \in unit[p].txs},
     posts |-> landed[p].posts \cup unit[p].posts,
     exps  |-> landed[p].exps \cup exps,
     locks |-> landed[p].locks \cup unit[p].locks]

\* the handler's last statement in the unit it supplied succeeds, the unit
\* commits and writeAudit records the request
HandlerDone(p, exps, action, entity) ==
    /\ db' = [Committed(p) EXCEPT !.exps = {e \in @ : \A x \in exps : x.id # e.id} \cup exps]
    /\ landed' = [landed EXCEPT ![p] = Landed(p, exps)]
    /\ unit' = [unit EXCEPT ![p] = EmptyUnit]
    /\ CreateAuditLog(call[p].org, action, entity)
    /\ Goto(p, "done")
    /\ UNCHANGED <<inner, call, local, result, err, prior, calls>>

ExpenseRow(id, org, ltx, date, amountCents, category) ==
    [id |-> id, org |-> org, ltx |-> ltx, deleted |-> FALSE, date |-> date,
     amountCents |-> amountCents, category |-> category]

\* POST: tx.expense.create, and the commit of the handler's unit
CallerWrite(p) ==
    /\ pc[p] = "h_write"
    /\ \/ HandlerDone(p, {ExpenseRow(result[p], call[p].org, result[p], call[p].occurredAt,
                                     call[p].amountCents, call[p].category)},
                      "CREATE", result[p])
       \/ Throw(p, "CallerAbort") /\ UNCHANGED audit

\* any statement may be rejected by the store (connection lost, timeout)
InUnit(p) == ~Resting(p) /\ pc[p] # "h_write"

StorageError(p) ==
    /\ InUnit(p)
    /\ Throw(p, "StorageError")
    /\ UNCHANGED audit

\* ------------------------------------------------------ period lock guard
\* (a lookup by period alone)
LockedAnyTenant(org, period) == \E l \in db.locks : l.period = period

\* ledgerPeriodLock.findUnique through the global client
Locked(org, period) == \E l \in db.locks : l.org = org /\ l.period = period

\* the call of guardPeriodNotLocked(org, date) inside a handler
GuardPeriodNotLocked(p, date, next, args) ==
    IF Locked(call[p].org, PeriodOf(date))
      THEN Throw(p, "PeriodLocked") /\ UNCHANGED audit
      ELSE /\ Goto(p, next)
           /\ call' = [call EXCEPT ![p] = args]
           /\ UNCHANGED <<db, unit, inner, audit, local, result, err, prior, landed, calls>>

\* the statement after the guards: the reversal when the expense has a ledger
\* transaction, else what follows it
AfterGuards(p) ==
    CASE call[p].route = "post"   -> "c_lookup"
      [] call[p].route = "delete" -> IF call[p].transactionId # NoId THEN "r_load" ELSE "h_delete"
      [] call[p].route = "delete_own" ->
                                     IF call[p].transactionId # NoId THEN "r_load" ELSE "h_delete"
      [] call[p].route = "patch"  -> IF call[p].transactionId # NoId THEN "r_load" ELSE "c_lookup"

\* the guard on the date of the request (POST) or of the stored expense
GuardPeriod(p) ==
    /\ pc[p] = "g_guard"
    /\ GuardPeriodNotLocked(p, call[p].occurredAt,
                            IF call[p].route = "patch" THEN "g_guard_new" ELSE AfterGuards(p),
                            call[p])

\* (a PATCH that guards the stored date only)
GuardNewPeriodSkipped(p) ==
    /\ pc[p] = "g_guard_new"
    /\ LET final == [call[p] EXCEPT
                       !.occurredAt = IF call[p].newDate # NoDate THEN call[p].newDate ELSE @,
                       !.amountCents = IF call[p].newAmount # 0 THEN call[p].newAmount ELSE @] IN
         /\ Goto(p, AfterGuards(p))
         /\ call' = [call EXCEPT ![p] = final]
         /\ UNCHANGED <<db, unit, inner, audit, local, result, err, prior, landed, calls>>

\* PATCH: the guard on the new date when the request carries one; the final
\* date and amount are the request's, else the stored expense's
GuardNewPeriod(p) ==
    /\ pc[p] = "g_guard_new"
    /\ LET final == [call[p] EXCEPT
                       !.occurredAt = IF call[p].newDate # NoDate THEN call[p].newDate ELSE @,
                       !.amountCents = IF call[p].newAmount # 0 THEN call[p].newAmount ELSE @] IN
         IF call[p].newDate # NoDate
           THEN GuardPeriodNotLocked(p, call[p].newDate, AfterGuards(p), final)
           ELSE /\ Goto(p, AfterGuards(p))
                /\ call' = [call EXCEPT ![p] = final]
                /\ UNCHANGED <<db, unit, inner, audit, local, result, err, prior, landed, calls>>

\* ---------------------------------------------------------------- lockPeriod
LockRow(org, period, lockedByUserId) ==
    [org |-> org, period |-> period, lockedBy |-> lockedByUserId]

LockPeriod(p, W) ==
    \E org \in W.orgs, period \in W.periods, user \in W.users :
        Begin(p, [NoCall EXCEPT !.op = "lock", !.org = org, !.period = period, !.user = user],
              "l_find",
              IF LockCommitted(org, period)
                THEN (CHOOSE l \in db.locks : l.org = org /\ l.period = period).lockedBy
                ELSE "")

\* (a lookup that never finds the lock)
LockFindNothing(p) ==
    /\ pc[p] = "l_find"
    /\ Goto(p, "l_create")
    /\ UNCHANGED <<db, unit, inner, audit, call, local, result, err, prior, landed, calls>>

\* ledgerPeriodLock.findUnique inside the unit; a lock that exists ends the call
LockFind(p) ==
    /\ pc[p] = "l_find"
    /\ IF \E l \in View(p).locks : l.org = call[p].org /\ l.period = call[p].period
         THEN Goto(p, "c_commit")
         ELSE Goto(p, "l_create")
    /\ UNCHANGED <<db, unit, inner, audit, call, local, result, err, prior, landed, calls>>

\* ledgerPeriodLock.create
LockCreate(p) ==
    /\ pc[p] = "l_create"
    /\ ~LockHeldByOther(p, call[p].org, call[p].period)
    /\ IF LockCommitted(call[p].org, call[p].period)
         THEN Throw(p, "DuplicateLock")
         ELSE /\ unit' = [unit EXCEPT ![p].locks =
                            @ \cup {LockRow(call[p].org, call[p].period, call[p].user)}]
              /\ Goto(p, "l_audit")
              /\ UNCHANGED <<db, inner, call, local, result, err, prior, landed, calls>>
    /\ UNCHANGED audit

LockAudit(p) ==
    /\ pc[p] = "l_audit"
    /\ CreateAuditLog(call[p].org, "PERIOD_LOCKED", call[p].period)
    /\ Goto(p, "c_commit")
    /\ UNCHANGED <<db, unit, inner, call, local, result, err, prior, landed, calls>>

\* --------------------------------------------- PATCH and DELETE /expenses/[id]
DeleteExpense(p, W) ==
    \E org \in W.orgs, id \in TxIds, now \in W.nows, user \in W.users :
        Begin(p, [NoCall EXCEPT !.op = "delete", !.route = "delete", !.nested = TRUE,
                                !.org = org, !.expense = id, !.now = now, !.user = user],
              "x_find", NoId)

PatchExpense(p, W) ==
    \E org \in W.orgs, id \in TxIds, now \in W.nows, user \in W.users,
       newDate \in W.dates \cup {NoDate}, newAmount \in W.amounts \cup {0},
       bodyOrg \in BodyOrgs(W) :
        Begin(p, [NoCall EXCEPT !.op = "patch", !.route = "patch", !.nested = TRUE,
                                !.org = org, !.expense = id, !.now = now, !.user = user,
                                !.key = FreshKey("expense"),
                                !.newDate = newDate, !.newAmount = newAmount,
                                !.bodyOrg = bodyOrg],
              "x_find", NoId)

\* GET /expenses/[id]
GetExpense(p, W) ==
    \E org \in W.orgs, id \in TxIds, user \in W.users :
        Begin(p, [NoCall EXCEPT !.op = "get", !.route = "get", !.org = org,
                                !.expense = id, !.user = user],
              "x_get", NoId)

\* GET: orgFindUniqueExpense, 404 for no row or a soft-deleted one, else the
\* row is the response
ReadExpense(p) ==
    /\ pc[p] = "x_get"
    /\ LET found == {e \in db.exps : e.id = call[p].expense /\ e.org = call[p].org} IN
         IF found = {} \/ \E e \in found : e.deleted
           THEN Throw(p, "ExpenseNotFound")
           ELSE /\ result' = [result EXCEPT ![p] = call[p].expense]
                /\ Goto(p, "done")
                /\ UNCHANGED <<db, unit, inner, call, local, err, prior, landed, calls>>
    /\ UNCHANGED audit

\* (a lookup by id alone)
FindExpenseUnscoped(p) ==
    /\ pc[p] = "x_find"
    /\ LET found == {e \in db.exps : e.id = call[p].expense} IN
         IF found = {}
           THEN Throw(p, "ExpenseNotFound")
           ELSE LET e == CHOOSE x \in found : TRUE IN
                /\ call' = [call EXCEPT ![p].transactionId = e.ltx,
                                        ![p].occurredAt = e.date,
                                        ![p].amountCents = e.amountCents,
                                        ![p].category = e.category]
                /\ Goto(p, "g_guard")
                /\ UNCHANGED <<db, unit, inner, local, result, err, prior, landed, calls>>
    /\ UNCHANGED audit

\* orgFindUniqueExpense through the global client: the expense of the actor's
\* organization with this id, deleted or not
FindExpense(p) ==
    /\ pc[p] = "x_find"
    /\ LET found == {e \in db.exps : e.id = call[p].expense /\ e.org = call[p].org} IN
         IF found = {}
           THEN Throw(p, "ExpenseNotFound")
           ELSE LET e == CHOOSE x \in found : TRUE IN
                /\ call' = [call EXCEPT ![p].transactionId = e.ltx,
                                        ![p].occurredAt = e.date,
                                        ![p].amountCents = e.amountCents,
                                        ![p].category = e.category]
                /\ Goto(p, "g_guard")
                /\ UNCHANGED <<db, unit, inner, local, result, err, prior, landed, calls>>
    /\ UNCHANGED audit

\* DELETE: tx.expense.update({deletedAt}), and the commit of the handler's unit
SoftDelete(p) ==
    /\ pc[p] = "h_delete"
    /\ LET e == CHOOSE x \in db.exps : x.id = call[p].expense IN
         HandlerDone(p, {[e EXCEPT !.deleted = TRUE]}, "DELETE", call[p].expense)

\* PATCH: tx.expense.update with the request's fields (every validated field
\* but id) and the new ledger transaction, and the commit of the handler's unit
UpdateExpense(p) ==
    /\ pc[p] = "h_update"
    /\ LET e == CHOOSE x \in db.exps : x.id = call[p].expense IN
         HandlerDone(p, {[e EXCEPT !.ltx = result[p],
                                   !.org = IF call[p].bodyOrg # NoOrg
                                             THEN call[p].bodyOrg ELSE @,
                                   !.date = IF call[p].newDate # NoDate
                                              THEN call[p].newDate ELSE @,
                                   !.amountCents = IF call[p].newAmount # 0
                                                     THEN call[p].newAmount ELSE @]},
                     "UPDATE", call[p].expense)

\* ------------------------------------- DELETE /expenses/[id], other handlers
\* the handler that looks the expense up by id alone, asks for membership of
\* the expense's organization and calls reverseTransaction without its unit
DeleteExpenseByMember(p, W) ==
    \E org \in W.orgs, id \in TxIds, now \in W.nows, user \in W.users :
        Begin(p, [NoCall EXCEPT !.op = "delete", !.route = "delete_own", !.nested = FALSE,
                                !.org = org, !.expense = id, !.now = now, !.user = user],
              "x_find_id", NoId)

\* the handler without the ledger
DeleteExpenseLegacy(p, W) ==
    \E org \in W.orgs, id \in TxIds, now \in W.nows, user \in W.users :
        Begin(p, [NoCall EXCEPT !.op = "delete", !.route = "legacy", !.nested = FALSE,
                                !.org = org, !.expense = id, !.now = now, !.user = user],
              "x_find_id", NoId)

\* prisma.expense.findUnique({id}), then requireMembership(expense.organizationId)
FindExpenseById(p) ==
    /\ pc[p] = "x_find_id"
    /\ LET found == {e \in db.exps : e.id = call[p].expense} IN
         IF found = {}
           THEN Throw(p, "ExpenseNotFound")
           ELSE LET e == CHOOSE x \in found : TRUE IN
             IF e.org # call[p].org
               THEN Throw(p, "NotMember")
               ELSE /\ call' = [call EXCEPT ![p].transactionId = e.ltx,
                                            ![p].occurredAt = e.date,
                                            ![p].amountCents = e.amountCents,
                                            ![p].category = e.category]
                    /\ Goto(p, IF call[p].route = "legacy" THEN "h_hard_delete" ELSE "g_guard")
                    /\ UNCHANGED <<db, unit, inner, local, result, err, prior, landed, calls>>
    /\ UNCHANGED audit

\* reverseTransaction called without tx: the unit it opened commits when it
\* returns, and the handler goes on to its own statement
CommitReversal(p) ==
    /\ pc[p] = "r_commit"
    /\ db' = Committed(p)
    /\ landed' = [landed EXCEPT ![p] = Landed(p, {})]
    /\ unit' = [unit EXCEPT ![p] = EmptyUnit]
    /\ Goto(p, "h_delete")
    /\ UNCHANGED <<inner, audit, call, local, result, err, prior, calls>>

\* prisma.expense.delete({id}) through the global client, then createAuditLog
HardDelete(p) ==
    /\ pc[p] = "h_hard_delete"
    /\ db' = [db EXCEPT !.exps = {e \in @ : e.id # call[p].expense}]
    /\ CreateAuditLog(call[p].org, "DELETE", call[p].expense)
    /\ Goto(p, "done")
    /\ UNCHANGED <<unit, inner, call, local, result, err, prior, landed, calls>>

\* ------------------------------------------------- scripts/backfill-ledger
\* expense rows without a ledger transaction, as prisma/seed.ts creates them
SeedExpenses ==
    { ExpenseRow(1, "T1", NoId, <<2024, 1, 15>>, 1, "Food"),
      ExpenseRow(2, "T1", NoId, <<2024, 1, 15>>, 2, NoCategory),
      ExpenseRow(3, "T2", NoId, <<2024, 2, 1>>, 1, "Food") }

\* prisma.organization.findMany(): the organizations, one after the other
OrgAfter(org) ==
    CASE org = NoOrg -> "T1"
      [] org = "T1"  -> "T2"
      [] OTHER       -> NoOrg

\* (a key made anew on every run)
BackfillKeyFresh(id) == FreshKey("backfill:run")

\* `backfill:expense:${expense.id}`
BackfillKey(id) == <<"backfill:expense", id>>

\* transactions the backfill created whose expense is not linked yet
Orphans ==
    {t \in db.txs : \E e \in db.exps : e.org = t.org /\ e.ltx = NoId /\ t.key = BackfillKey(e.id)}

\* a run of the script
Backfill(p) ==
    Begin(p, [NoCall EXCEPT !.op = "backfill", !.route = "backfill", !.org = NoOrg],
          "b_org", Cardinality(Orphans))

\* for (const org of organizations): ensureDefaultAccounts(org.id) comes first
BackfillOrg(p) ==
    /\ pc[p] = "b_org"
    /\ IF OrgAfter(call[p].org) = NoOrg
         THEN Goto(p, "done") /\ UNCHANGED call
         ELSE /\ call' = [call EXCEPT ![p].org = OrgAfter(call[p].org), ![p].expense = NoId]
              /\ Goto(p, "e_cash")
    /\ UNCHANGED <<db, unit, inner, audit, local, result, err, prior, landed, calls>>

\* expense.findMany({organizationId, ledgerTransactionId: null, deletedAt: null})
BackfillScan(p) ==
    /\ pc[p] = "b_scan"
    /\ local' = [local EXCEPT ![p] =
                   [NoLocal EXCEPT !.todo = {e.id : e \in {x \in db.exps :
                        x.org = call[p].org /\ x.ltx = NoId /\ ~x.deleted}}]]
    /\ Goto(p, "b_next")
    /\ UNCHANGED <<db, unit, inner, audit, call, result, err, prior, landed, calls>>

\* for (const expense of expenses), in the order the store returned them
BackfillNext(p) ==
    /\ pc[p] = "b_next"
    /\ IF local[p].todo = {}
         THEN /\ Goto(p, "b_org")
              /\ UNCHANGED <<call, local, result>>
         ELSE \E id \in local[p].todo :
                LET e == CHOOSE x \in db.exps : x.id = id IN
                /\ call' = [call EXCEPT ![p].expense = id, ![p].key = BackfillKey(id),
                                        ![p].amountCents = e.amountCents,
                                        ![p].occurredAt = e.date,
                                        ![p].category = e.category]
                /\ local' = [local EXCEPT ![p].todo = @ \ {id}]
                /\ result' = [result EXCEPT ![p] = NoId]
                /\ Goto(p, "b_find")
    /\ UNCHANGED <<db, unit, inner, audit, err, prior, landed, calls>>

\* ledgerTransaction.findUnique({organizationId, idempotencyKey}) through the
\* global client: an existing transaction is linked, else one is created
BackfillFind(p) ==
    /\ pc[p] = "b_find"
    /\ LET existing == {t \in db.txs : t.org = call[p].org /\ t.key = call[p].key} IN
         IF existing # {}
           THEN /\ result' = [result EXCEPT ![p] = (CHOOSE t \in existing : TRUE).id]
                /\ Goto(p, "b_link")
           ELSE /\ Goto(p, "c_lookup")
                /\ UNCHANGED result
    /\ UNCHANGED <<db, unit, inner, audit, call, local, err, prior, landed, calls>>

\* createExpenseTransaction called without tx: its unit commits when it returns
BackfillCommit(p) ==
    /\ pc[p] = "b_commit"
    /\ db' = Committed(p)
    /\ landed' = [landed EXCEPT ![p] = Landed(p, {})]
    /\ unit' = [unit EXCEPT ![p] = EmptyUnit]
    /\ Goto(p, "b_link")
    /\ UNCHANGED <<inner, audit, call, local, result, err, prior, calls>>

\* expense.update({id}, {ledgerTransactionId}) through the global client
BackfillLink(p) ==
    /\ pc[p] = "b_link"
    /\ db' = [db EXCEPT !.exps = {IF e.id = call[p].expense
                                    THEN [e EXCEPT !.ltx = result[p]] ELSE e : e \in @}]
    /\ Goto(p, "b_next")
    /\ UNCHANGED <<unit, inner, audit, call, local, result, err, prior, landed, calls>>

\* the script's process dies: what has not committed is lost
Crash(p) ==
    /\ call[p].route = "backfill" /\ ~Resting(p)
    /\ unit' = [unit EXCEPT ![p] = EmptyUnit]
    /\ inner' = [inner EXCEPT ![p] = {}]
    /\ pc' = [pc EXCEPT ![p] = "failed"]
    /\ err' = [err EXCEPT ![p] = "Crash"]
    /\ result' = [result EXCEPT ![p] = NoId]
    /\ local' = [local EXCEPT ![p] = NoLocal]
    /\ UNCHANGED <<db, audit, call, prior, landed, calls>>

\* ------------------------------------------------------------ getLedgerReport
\* Number(total) / 100
Major(cents) == [units |-> cents \div 100, hundredths |-> cents % 100]

\* (a report that keeps the reversed transactions)
NotReversedKept(txs, org) == {t \in txs : t.org = org}

\* where: organizationId, reversedByTransactionId: null
NotReversed(txs, org) == {t \in txs : t.org = org /\ t.rev = NoId}

\* include: postings where direction is DR
DebitPostings(t) == {x \in db.posts : x.tx = t.id /\ x.direction = "DR"}

RECURSIVE SumTransactions(_)
SumTransactions(txs) ==
    IF txs = {} THEN 0
    ELSE LET t == CHOOSE x \in txs : TRUE IN
         SumAmounts(DebitPostings(t)) + SumTransactions(txs \ {t})

\* (a report that reads the transactions of every tenant)
LedgerReportAllTenants(org) ==
    LET transactions == {t \in db.txs : t.rev = NoId}
        expenseTransactions == {t \in transactions : Cardinality(DebitPostings(t)) > 0} IN
    [org |-> org, total |-> Major(SumTransactions(expenseTransactions)),
     count |-> Cardinality(expenseTransactions)]

\* no filter, no groupBy
LedgerReport(org) ==
    LET transactions == NotReversed(db.txs, org)
        expenseTransactions == {t \in transactions : Cardinality(DebitPostings(t)) > 0} IN
    [org |-> org, total |-> Major(SumTransactions(expenseTransactions)),
     count |-> Cardinality(expenseTransactions)]

GetLedgerReport(p, W) ==
    /\ \E org \in W.orgs : Begin(p, [NoCall EXCEPT !.op = "report", !.org = org], "q_find", NoId)
    /\ report' = NoReport
    /\ UNCHANGED <<sinkUp, membership, activeOrg, orgCall>>

\* ledgerTransaction.findMany through the global client and the totals
RunReport(p) ==
    /\ pc[p] = "q_find"
    /\ report' = LedgerReport(call[p].org)
    /\ Goto(p, "done")
    /\ UNCHANGED <<db, unit, inner, audit, call, local, result, err, prior, landed, calls, sinkUp, membership, activeOrg, orgCall>>

\* occurredAt gte / lte
DateLe(a, b) ==
    \/ a[1] < b[1]
    \/ a[1] = b[1] /\ a[2] < b[2]
    \/ a[1] = b[1] /\ a[2] = b[2] /\ a[3] <= b[3]

\* where: organizationId, reversedByTransactionId: null, occurredAt, vendor
ReportTransactions(org, f) ==
    {t \in db.txs :
        /\ t.org = org
        /\ t.rev = NoId
        /\ f.startDate # NoDate => DateLe(f.startDate, t.occurredAt)
        /\ f.endDate # NoDate => DateLe(t.occurredAt, f.endDate)
        /\ f.vendor # "" => t.vendor = f.vendor}

\* include: postings where direction is DR and, if given, the category
ReportPostings(t, f) ==
    {x \in db.posts : /\ x.tx = t.id
                      /\ x.direction = "DR"
                      /\ f.category # "" => x.category = f.category}

\* the names every object literal answers to before anything is stored in it
ObjectPrototypeKeys ==
    {"constructor", "toString", "valueOf", "hasOwnProperty", "isPrototypeOf",
     "propertyIsEnumerable", "toLocaleString", "__proto__"}

\* the names the accumulator {} inherits
Inherited == ObjectPrototypeKeys

\* what is added under one key: the month or vendor of a transaction with the
\* sum of its postings, or the category of one posting with its amount
ReportEntries(org, f) ==
    LET expenseTransactions ==
            {t \in ReportTransactions(org, f) : Cardinality(ReportPostings(t, f)) > 0}
    IN  CASE f.groupBy = "month" ->
               {[key |-> PeriodOf(t.occurredAt), id |-> <<t.id, 0>>,
                 amountCents |-> SumAmounts(ReportPostings(t, f))] :
                    t \in expenseTransactions}
          [] f.groupBy = "vendor" ->
               {[key |-> IF Falsy(t.vendor) THEN "Unknown" ELSE t.vendor, id |-> <<t.id, 0>>,
                 amountCents |-> SumAmounts(ReportPostings(t, f))] :
                    t \in expenseTransactions}
          [] OTHER ->
               {[key |-> IF Falsy(x.category) THEN "Uncategorized" ELSE x.category,
                 id |-> <<x.tx, x.n>>, amountCents |-> x.amountCents] :
                    x \in UNION {ReportPostings(t, f) : t \in expenseTransactions}}

\* acc[key] = (acc[key] || 0) + amount, then Number(total) / 100: under a name
\* the accumulator inherits, the old value is a function, the sum is a string
\* and the total is NaN; __proto__ never becomes a key of its own
GroupedReport(org, f) ==
    LET entries == ReportEntries(org, f)
        keys == {e.key : e \in entries} \ ({"__proto__"} \cap Inherited)
    IN  [k \in keys |->
            IF k \in Inherited
              THEN [nan |-> TRUE, units |-> 0, hundredths |-> 0]
              ELSE LET total == SumAmounts({e \in entries : e.key = k}) IN
                   [nan |-> FALSE, units |-> Major(total).units,
                    hundredths |-> Major(total).hundredths]]

\* the default branch: total and count
UngroupedReport(org, f) ==
    LET expenseTransactions ==
            {t \in ReportTransactions(org, f) : Cardinality(ReportPostings(t, f)) > 0}
        total == SumAmounts(UNION {ReportPostings(t, f) : t \in expenseTransactions})
    IN  [total |-> Major(total), count |-> Cardinality(expenseTransactions)]

ReportOf(org, f) ==
    IF f.groupBy = ""
      THEN [org |-> org, filters |-> f, total |-> UngroupedReport(org, f).total,
            count |-> UngroupedReport(org, f).count, groups |-> <<>>]
      ELSE [org |-> org, filters |-> f, total |-> Major(0), count |-> 0,
            groups |-> GroupedReport(org, f)]

\* GET /api/reports with filters and groupBy
GetFilteredReport(p, W) ==
    /\ \E org \in W.orgs, startDate \in W.dateFilters,
          endDate \in W.dateFilters, category \in W.categoryFilters,
          vendor \in W.vendorFilters, groupBy \in {"", "month", "category", "vendor"} :
            Begin(p, [NoCall EXCEPT !.op = "report", !.org = org,
                                    !.filters = [startDate |-> startDate, endDate |-> endDate,
                                                 category |-> category, vendor |-> vendor,
                                                 groupBy |-> groupBy]],
                  "q_filtered", NoId)
    /\ report' = NoReport
    /\ UNCHANGED <<sinkUp, membership, activeOrg, orgCall>>

RunFilteredReport(p) ==
    /\ pc[p] = "q_filtered"
    /\ report' = ReportOf(call[p].org, call[p].filters)
    /\ Goto(p, "done")
    /\ UNCHANGED <<db, unit, inner, audit, call, local, result, err, prior, landed, calls,
                   sinkUp, membership, activeOrg, orgCall>>

\* --------------------------------------------------------- specifications
\* the statements of the ledger service, whoever calls it
EnsureSteps(p) ==
    \/ EnsureFindCash(p)
    \/ EnsureCreateCash(p)
    \/ EnsureFindUncategorized(p)
    \/ EnsureCreateUncategorized(p)
    \/ EnsureCommit(p)

Steps(p) ==
    \/ FindExisting(p)
    \/ EnsureSteps(p)
    \/ FindExpenseAccount(p)
    \/ CreateExpenseAccount(p)
    \/ GetCashAccount(p)
    \/ CreateTransactionRow(p)
    \/ CreatePostings(p)
    \/ CreatedAudit(p)
    \/ LoadOriginal(p)
    \/ FindExistingReversal(p)
    \/ CreateReversal(p)
    \/ LinkOriginal(p)
    \/ ReversedAudit(p)
    \/ CommitOwnUnit(p)
    \/ StorageError(p)

Step(p, W) ==
    /\ UNCHANGED <<sinkUp, membership, activeOrg, orgCall>>
    /\ report' = NoReport
    /\  \/ CreateExpenseTransaction(p, W)
        \/ PostExpense(p, W)
        \/ GuardPeriod(p)
        \/ ReverseTransaction(p, W)
        \/ CallerWrite(p)
        \/ Steps(p)

\* the calls a run draws from
Workload ==
    [orgs |-> {"T1"}, keys |-> UserKeys, categories |-> Categories, amounts |-> {1},
     dates |-> {<<2024, 1, 15>>}, nows |-> {<<2024, 2, 1>>}, users |-> {"u1"},
     periods |-> {"2024-01"}]
WorkloadSeq ==
    [orgs |-> Orgs, keys |-> UserKeys, categories |-> Categories, amounts |-> Amounts,
     dates |-> {<<2024, 1, 15>>}, nows |-> {<<2024, 2, 1>>}, users |-> {"u1"},
     periods |-> {"2024-01"}]

Next == \E p \in Procs : Step(p, Workload)

Spec == Init /\ [][Next]_vars

\* one caller at a time
NextSeq == Step("p1", WorkloadSeq)

SpecSeq == Init /\ [][NextSeq]_vars

\* one caller at a time: direct calls of the service and the report
WorkloadBooks ==
    [orgs |-> Orgs, keys |-> {"k1", "k2"}, categories |-> {NoCategory, "", "Food"},
     amounts |-> {50, 75}, dates |-> {<<2024, 1, 15>>}, nows |-> {<<2024, 2, 1>>},
     users |-> {"u1"}, periods |-> {"2024-01"}]

NextBooks ==
    \/ /\ UNCHANGED <<sinkUp, membership, activeOrg, orgCall>>
       /\ report' = NoReport
       /\ \/ CreateExpenseTransaction("p1", WorkloadBooks)
          \/ ReverseTransaction("p1", WorkloadBooks)
          \/ EnsureDefaultAccounts("p1", WorkloadBooks)
          \/ Steps("p1")
    \/ GetLedgerReport("p1", WorkloadBooks)
    \/ RunReport("p1")

SpecBooks == Init /\ [][NextBooks]_vars

\* the statements of the expense handlers and of lockPeriod
HandlerSteps(p) ==
    \/ FindExpense(p)
    \/ GuardPeriod(p)
    \/ GuardNewPeriod(p)
    \/ CallerWrite(p)
    \/ UpdateExpense(p)
    \/ SoftDelete(p)

LockSteps(p) ==
    \/ LockFind(p)
    \/ LockCreate(p)
    \/ LockAudit(p)

\* one caller at a time: POST and lockPeriod over two tenants and two months
WorkloadPeriods ==
    [orgs |-> Orgs, keys |-> UserKeys, categories |-> {NoCategory}, amounts |-> {1},
     dates |-> Dates, nows |-> {<<2024, 2, 1>>}, users |-> Users, periods |-> Periods]

NextPeriods ==
    /\ UNCHANGED <<sinkUp, membership, activeOrg, orgCall>>
    /\ report' = NoReport
    /\  \/ PostExpense("p1", WorkloadPeriods)
        \/ LockPeriod("p1", WorkloadPeriods)
        \/ GuardPeriod("p1")
        \/ CallerWrite("p1")
        \/ LockSteps("p1")
        \/ Steps("p1")

SpecPeriods == Init /\ [][NextPeriods]_vars

\* the expense handlers (caller p1) while periods are being locked (caller p2)
WorkloadLock ==
    [orgs |-> {"T1"}, keys |-> UserKeys, categories |-> {NoCategory}, amounts |-> {1},
     dates |-> Dates, nows |-> {<<2024, 2, 1>>}, users |-> {"u1"}, periods |-> Periods]

NextLock ==
    /\ UNCHANGED <<sinkUp, membership, activeOrg, orgCall>>
    /\ report' = NoReport
    /\  \/ PostExpense("p1", WorkloadLock)
        \/ PatchExpense("p1", WorkloadLock)
        \/ DeleteExpense("p1", WorkloadLock)
        \/ LockPeriod("p2", WorkloadLock)
        \/ \E p \in Procs : HandlerSteps(p) \/ LockSteps(p) \/ Steps(p)

SpecLock == Init /\ [][NextLock]_vars

\* ensureDefaultAccounts called directly, concurrently
NextAccounts ==
    \E p \in Procs :
        /\ UNCHANGED <<sinkUp, membership, activeOrg, orgCall>>
        /\ report' = NoReport
        /\  \/ EnsureDefaultAccounts(p, WorkloadSeq)
            \/ EnsureSteps(p)
            \/ StorageError(p)

SpecAccounts == Init /\ [][NextAccounts]_vars

\* one caller at a time: the account lookups called on their own, on tenants
\* with and without their default accounts
WorkloadResolve ==
    [orgs |-> Orgs, keys |-> UserKeys, categories |-> {NoCategory, "Food", "Fuel"},
     amounts |-> {1}, dates |-> {<<2024, 1, 15>>}, nows |-> {<<2024, 2, 1>>},
     users |-> {"u1"}, periods |-> {"2024-01"}]

NextResolve ==
    /\ UNCHANGED <<sinkUp, membership, activeOrg, orgCall>>
    /\ report' = NoReport
    /\  \/ EnsureDefaultAccounts("p1", WorkloadResolve)
        \/ GetOrCreateExpenseAccount("p1", WorkloadResolve)
        \/ GetCashAccountOf("p1", WorkloadResolve)
        \/ EnsureSteps("p1")
        \/ FindExpenseAccount("p1")
        \/ CreateExpenseAccount("p1")
        \/ GetCashAccount("p1")
        \/ CommitOwnUnit("p1")

SpecResolve == Init /\ [][NextResolve]_vars

\* one caller at a time: every operation of the ledger service and the
\* report, over two tenants
WorkloadTenants ==
    [orgs |-> Orgs, keys |-> UserKeys, categories |-> Categories, amounts |-> {50},
     dates |-> {<<2024, 1, 15>>}, nows |-> {<<2024, 2, 1>>}, users |-> {"u1"},
     periods |-> {"2024-01"}]

NextTenants ==
    \/ /\ UNCHANGED <<sinkUp, membership, activeOrg, orgCall>>
       /\ report' = NoReport
       /\ \/ CreateExpenseTransaction("p1", WorkloadTenants)
          \/ ReverseTransaction("p1", WorkloadTenants)
          \/ EnsureDefaultAccounts("p1", WorkloadTenants)
          \/ LockPeriod("p1", WorkloadTenants)
          \/ LockSteps("p1")
          \/ Steps("p1")
    \/ GetLedgerReport("p1", WorkloadTenants)
    \/ RunReport("p1")

SpecTenants == Init /\ [][NextTenants]_vars

\* one caller at a time: the expense handlers over two tenants
WorkloadHandlers ==
    [orgs |-> Orgs, keys |-> UserKeys, categories |-> {NoCategory}, amounts |-> Amounts,
     dates |-> {<<2024, 1, 15>>}, nows |-> {<<2024, 2, 1>>}, users |-> {"u1"},
     periods |-> {"2024-01"}]

NextHandlers ==
    /\ UNCHANGED <<sinkUp, membership, activeOrg, orgCall>>
    /\ report' = NoReport
    /\  \/ PostExpense("p1", WorkloadHandlers)
        \/ PatchExpense("p1", WorkloadHandlers)
        \/ DeleteExpense("p1", WorkloadHandlers)
        \/ GetExpense("p1", WorkloadHandlers)
        \/ ReadExpense("p1")
        \/ HandlerSteps("p1")
        \/ Steps("p1")

SpecHandlers == Init /\ [][NextHandlers]_vars

\* one caller at a time: POST and the three DELETE handlers
NextDelete ==
    /\ UNCHANGED <<sinkUp, membership, activeOrg, orgCall>>
    /\ report' = NoReport
    /\  \/ PostExpense("p1", WorkloadSeq)
        \/ DeleteExpense("p1", WorkloadSeq)
        \/ DeleteExpenseByMember("p1", WorkloadSeq)
        \/ DeleteExpenseLegacy("p1", WorkloadSeq)
        \/ FindExpense("p1")
        \/ FindExpenseById("p1")
        \/ GuardPeriod("p1")
        \/ CallerWrite("p1")
        \/ SoftDelete("p1")
        \/ CommitReversal("p1")
        \/ HardDelete("p1")
        \/ Steps("p1")

SpecDelete == Init /\ [][NextDelete]_vars

\* one caller at a time: POST and PATCH with bodies that may carry an
\* organizationId
WorkloadBody ==
    [orgs |-> Orgs, keys |-> UserKeys, categories |-> {NoCategory}, amounts |-> {1},
     dates |-> {<<2024, 1, 15>>}, nows |-> {<<2024, 2, 1>>}, users |-> {"u1"},
     periods |-> {"2024-01"}, bodyOrgs |-> Orgs \cup {NoOrg}]

NextBody ==
    /\ UNCHANGED <<sinkUp, membership, activeOrg, orgCall>>
    /\ report' = NoReport
    /\  \/ PostExpense("p1", WorkloadBody)
        \/ PatchExpense("p1", WorkloadBody)
        \/ FindExpense("p1")
        \/ GuardPeriod("p1")
        \/ GuardNewPeriod("p1")
        \/ CallerWrite("p1")
        \/ UpdateExpense("p1")
        \/ Steps("p1")

SpecBody == Init /\ [][NextBody]_vars

\* runs of the backfill, one after the other, on a database that holds
\* expenses without ledger transactions
InitSeeded ==
    /\ \E S \in SUBSET SeedExpenses : S # {} /\ db = [EmptyDb EXCEPT !.exps = S]
    /\ unit = [p \in Procs |-> EmptyUnit]
    /\ inner = [p \in Procs |-> {}]
    /\ audit = {}
    /\ pc = [p \in Procs |-> "idle"]
    /\ call = [p \in Procs |-> NoCall]
    /\ local = [p \in Procs |-> NoLocal]
    /\ result = [p \in Procs |-> NoId]
    /\ err = [p \in Procs |-> ""]
    /\ prior = [p \in Procs |-> NoId]
    /\ landed = [p \in Procs |-> EmptyDb]
    /\ calls = 0
    /\ sinkUp \in BOOLEAN
    /\ membership = {}
    /\ activeOrg = [u \in Users |-> NoOrg]
    /\ orgCall = NoOrgCall
    /\ report = NoReport

NextBackfill ==
    /\ UNCHANGED <<sinkUp, membership, activeOrg, orgCall>>
    /\ report' = NoReport
    /\  \/ Backfill("p1")
        \/ BackfillOrg("p1")
        \/ BackfillScan("p1")
        \/ BackfillNext("p1")
        \/ BackfillFind("p1")
        \/ BackfillCommit("p1")
        \/ BackfillLink("p1")
        \/ Crash("p1")
        \/ EnsureSteps("p1")
        \/ FindExisting("p1")
        \/ FindExpenseAccount("p1")
        \/ CreateExpenseAccount("p1")
        \/ GetCashAccount("p1")
        \/ CreateTransactionRow("p1")
        \/ CreatePostings("p1")
        \/ CreatedAudit("p1")
        \/ StorageError("p1")

SpecBackfill == InitSeeded /\ [][NextBackfill]_vars

\* ================================================================ claims
PostingsOf(posts, id) == {x \in posts : x.tx = id}
Finished(p, op) == call[p].op = op /\ Resting(p)

\* C1: every ledger transaction, committed or seen inside a unit, has DEBIT
\* posting amounts summing to the same value as its CREDIT posting amounts,
\* after any sequence of creations and reversals (reversals of reversals too).
C1_Balanced ==
    /\ \A t \in db.txs : Total(db.posts, t.id, "DR") = Total(db.posts, t.id, "CR")
    /\ \A p \in Procs : \A t \in View(p).txs :
          Total(View(p).posts, t.id, "DR") = Total(View(p).posts, t.id, "CR")

C1_Witness ==
    \E t \in db.txs : \E r \in db.txs : \E rr \in db.txs :
        /\ t.orig = NoId /\ r.orig = t.id /\ rr.orig = r.id
        /\ Total(db.posts, rr.id, "DR") = 2
        /\ Total(db.posts, r.id, "CR") = 2

\* C2: a standalone createExpenseTransaction that begins when a transaction
\* with its (tenant, idempotencyKey) is already committed writes nothing at
\* any point, and unless the store rejects its lookup it returns that
\* transaction's identifier.
C2_SecondCallReturnsFirst ==
    \A p \in Procs :
        (call[p].op = "create" /\ ~call[p].nested /\ prior[p] # NoId) =>
            /\ unit[p] = EmptyUnit /\ inner[p] = {}
            /\ landed[p] = EmptyDb
            /\ pc[p] \notin {"e_cash", "c_account", "c_tx", "c_postings", "c_audit"}
            /\ (Resting(p) /\ err[p] # "StorageError") =>
                   (pc[p] = "done" /\ result[p] = prior[p])

C2_Witness ==
    \E p \in Procs :
        /\ Finished(p, "create") /\ pc[p] = "done"
        /\ prior[p] # NoId /\ result[p] = prior[p]
        /\ \E x \in db.posts :
              /\ x.tx = prior[p] /\ x.direction = "DR"
              /\ x.amountCents # call[p].amountCents
              /\ x.category # call[p].category

\* C3 (as claimed): no createExpenseTransaction call ends in the error of a
\* duplicate (tenant, idempotencyKey); two calls racing on one key both
\* return the one persisted transaction.
C3_NoDuplicateKeyError ==
    \A p \in Procs : \A q \in Procs :
        (/\ p # q /\ Finished(p, "create") /\ Finished(q, "create")
         /\ call[p].key = call[q].key /\ call[p].org = call[q].org
         /\ pc[p] = "done" /\ landed[p].txs # {}
         /\ prior[q] = NoId /\ err[q] # "StorageError" /\ err[q] # "DuplicateAccount")
        => (pc[q] = "done" /\ result[q] = result[p])

\* C4: when a reverseTransaction(t) has created and committed reversal r, t's
\* reversal link is r, r's original link is t, and r has exactly one posting
\* per posting of t: same account, amount, currency and category, opposite
\* direction.
IsMirror(x, y) ==
    /\ x.account = y.account /\ x.amountCents = y.amountCents
    /\ x.currency = y.currency /\ x.category = y.category /\ x.org = y.org
    /\ \/ x.direction = "DR" /\ y.direction = "CR"
       \/ x.direction = "CR" /\ y.direction = "DR"

Mirrored(posts, t, r) ==
    /\ Cardinality(PostingsOf(posts, t)) = Cardinality(PostingsOf(posts, r))
    /\ \A x \in PostingsOf(posts, t) :
          Cardinality({y \in PostingsOf(posts, r) : y.n = x.n /\ IsMirror(x, y)}) = 1

C4_ReversalMirrors ==
    \A p \in Procs :
        (Finished(p, "reverse") /\ pc[p] = "done") =>
            /\ \E t \in db.txs : t.id = call[p].transactionId /\ t.rev = result[p]
            /\ \E r \in db.txs : r.id = result[p] /\ r.orig = call[p].transactionId
            /\ Mirrored(db.posts, call[p].transactionId, result[p])

C4_Witness ==
    \E p \in Procs :
        /\ Finished(p, "reverse") /\ pc[p] = "done"
        /\ Cardinality(PostingsOf(db.posts, result[p])) = 2
        /\ \E y \in PostingsOf(db.posts, result[p]) :
              y.direction = "DR" /\ y.account = CashName /\ y.amountCents = 2

\* a reverseTransaction call that begins when its target, a transaction of the
\* caller's tenant, already has a committed reversal link
AgainReversed(p) ==
    /\ Finished(p, "reverse") /\ prior[p] # NoId
    /\ \E t \in db.txs : t.id = call[p].transactionId /\ t.org = call[p].org
    /\ err[p] # "StorageError"

\* C5 (as claimed): reverseTransaction(t) called again after it succeeded
\* returns the first reversal's identifier.
C5_SecondReverseReturnsSame ==
    \A p \in Procs : AgainReversed(p) => (pc[p] = "done" /\ result[p] = prior[p])

\* C5 (amended): reverseTransaction(t) called again after it succeeded fails
\* with 'Transaction already reversed', returns nothing, and creates no
\* transaction and no posting; t keeps the first reversal as its link.
C5_SecondReverseRejected ==
    /\ \A p \in Procs : AgainReversed(p) =>
          /\ pc[p] = "failed" /\ err[p] = "AlreadyReversed" /\ result[p] = NoId
          /\ landed[p] = EmptyDb
          /\ \E t \in db.txs : t.id = call[p].transactionId /\ t.rev = prior[p]
    /\ \A p \in Procs : (call[p].op = "reverse" /\ prior[p] # NoId) =>
          (unit[p] = EmptyUnit /\ pc[p] \notin {"r_check", "r_create", "r_link", "r_audit"})

C5_Witness ==
    \E p \in Procs :
        /\ AgainReversed(p) /\ err[p] = "AlreadyReversed"
        /\ Cardinality({r \in db.txs : r.orig = call[p].transactionId}) = 1

\* C6: whenever reverseTransaction loads a target of the caller's tenant whose
\* reversal link is non-null, the call fails with 'Transaction already
\* reversed' and the step leaves the committed transactions, postings and
\* the link as they were, the caller's unit holding no write.
TargetReversed(p) ==
    /\ pc[p] = "r_load"
    /\ \E t \in View(p).txs :
          t.id = call[p].transactionId /\ t.org = call[p].org /\ t.rev # NoId

C6_AlreadyReversedRejected ==
    [][\A p \in Procs :
          (TargetReversed(p) /\ pc'[p] # "r_load" /\ err'[p] # "StorageError") =>
              /\ pc'[p] = "failed" /\ err'[p] = "AlreadyReversed"
              /\ db' = db
              /\ unit'[p] = EmptyUnit]_vars

C6_Witness ==
    \E p \in Procs :
        /\ Finished(p, "reverse") /\ err[p] = "AlreadyReversed"
        /\ prior[p] = NoId
        /\ \E t \in db.txs : t.id = call[p].transactionId /\ t.rev # NoId

\* C7 (as claimed): at most one committed reversal has a given transaction
\* as its original, whatever the interleaving.
C7_AtMostOneReversal ==
    \A t \in db.txs : Cardinality({r \in db.txs : r.orig = t.id}) <= 1

\* C8: every committed transaction created by createExpenseTransaction has
\* exactly one DEBIT and one CREDIT posting, and every committed reversal
\* has the mirror of each posting of its (committed) original.
C8_NoPartialTransaction ==
    \A t \in db.txs :
        IF t.orig = NoId
          THEN /\ Cardinality({x \in PostingsOf(db.posts, t.id) : x.direction = "DR"}) = 1
               /\ Cardinality({x \in PostingsOf(db.posts, t.id) : x.direction = "CR"}) = 1
               /\ Cardinality(PostingsOf(db.posts, t.id)) = 2
          ELSE /\ \E o \in db.txs : o.id = t.orig
               /\ Mirrored(db.posts, t.orig, t.id)
               /\ PostingsOf(db.posts, t.id) # {}

C8_Witness ==
    \E p \in Procs : \E q \in Procs :
        /\ pc[p] = "c_postings" /\ unit[p].txs # {} /\ unit[p].posts = {}
        /\ pc[q] = "r_link" /\ unit[q].posts # {}
        /\ \E t \in db.txs : t.orig = NoId

\* C9 (as claimed): a standalone createExpenseTransaction that fails leaves
\* no row it wrote in storage: no transaction, no posting, no account.
C9_FailedCreateLeavesNothing ==
    \A p \in Procs :
        (Finished(p, "create") /\ ~call[p].nested /\ pc[p] = "failed") =>
            landed[p] = EmptyDb

\* C10 (as claimed): when the caller's unit aborts after the call it was
\* handed to has returned, no row written by the call is in storage.
C10_CallerAbortLeavesNothing ==
    \A p \in Procs :
        (call[p].nested /\ pc[p] = "failed" /\ err[p] = "CallerAbort") =>
            landed[p] = EmptyDb

\* the calendar month an instant falls in
MonthOf(d) ==
    CASE d = <<2024, 1, 15>> -> "2024-01"
      [] d = <<2024, 2, 1>>  -> "2024-02"
      [] OTHER               -> "none"

LockRowFor(org, d) == \E l \in db.locks : l.org = org /\ l.period = MonthOf(d)

\* C11 (as claimed): once a lock row exists for (tenant, period), no step of
\* an expense handler (create, update, delete, with the reversals they make),
\* in any interleaving with lockPeriod, commits a new ledger transaction of
\* that tenant whose occurrence timestamp falls in that period.
C11_NoNewTransactionInLockedPeriod ==
    [][\A t \in db'.txs :
          (t.id \notin {x.id : x \in db.txs}) => ~LockRowFor(t.org, t.occurredAt)]_vars

\* C12: a guardPeriodNotLocked(T, d) that the store answers fails with the
\* period-locked error exactly when a lock row exists for (T, month of d) and
\* otherwise lets the handler go on; locks of other tenants or months do not
\* count, and the step changes no stored row in either outcome.
C12_GuardExactlyWhenLocked ==
    [][\A p \in Procs :
          (pc[p] = "g_guard" /\ pc'[p] # "g_guard" /\ err'[p] # "StorageError") =>
              /\ (pc'[p] = "failed" /\ err'[p] = "PeriodLocked")
                    <=> LockRowFor(call[p].org, call[p].occurredAt)
              /\ ~LockRowFor(call[p].org, call[p].occurredAt) => pc'[p] = "c_lookup"
              /\ db' = db /\ unit' = unit /\ inner' = inner /\ audit' = audit]_vars

C12_Witness ==
    \E p \in Procs :
        /\ pc[p] = "failed" /\ err[p] = "PeriodLocked"
        /\ call[p].org = "T1" /\ call[p].occurredAt = <<2024, 1, 15>>
        /\ db.locks = {LockRow("T1", "2024-01", "u2")}
        /\ \E t \in db.txs : t.org = "T1" /\ t.occurredAt = <<2024, 2, 1>>

\* C13: a lockPeriod that begins when its (tenant, period) is already locked
\* inserts nothing and emits no audit event at any step, ends without error
\* unless the store rejects its lookup, and leaves the one lock row with the
\* first caller's lockedBy; no (tenant, period) ever has two lock rows, and
\* no step removes a lock row.
LocksOf(org, period) == {l \in db.locks : l.org = org /\ l.period = period}

C13_LockIdempotentMonotonic ==
    [][/\ \A p \in Procs :
             (call'[p].op = "lock" /\ prior'[p] # "") =>
                 /\ pc'[p] \notin {"l_create", "l_audit"}
                 /\ unit'[p] = EmptyUnit /\ landed'[p] = EmptyDb
                 /\ audit' = audit
                 /\ (Resting(p)' /\ err'[p] # "StorageError") => pc'[p] = "done"
                 /\ \A l \in db'.locks :
                       (l.org = call'[p].org /\ l.period = call'[p].period)
                           => l.lockedBy = prior'[p]
       /\ \A org \in Orgs : \A period \in Periods :
             Cardinality({l \in db'.locks : l.org = org /\ l.period = period}) <= 1
       /\ db.locks \subseteq db'.locks]_vars

C13_Witness ==
    \E p \in Procs :
        /\ Finished(p, "lock") /\ pc[p] = "done"
        /\ prior[p] # "" /\ prior[p] # call[p].user
        /\ LocksOf(call[p].org, call[p].period)
              = {LockRow(call[p].org, call[p].period, prior[p])}
        /\ Cardinality(db.locks) = 2

\* the result of a report that has just returned to p
Reported(p) == Finished(p, "report") /\ pc[p] = "done" /\ report.org = call[p].org

Cents(total) == total.units * 100 + total.hundredths

ExpenseAccounts(org) == {a.name : a \in {x \in db.accts : x.org = org /\ x.type = "EXPENSE"}}

ExpensePostingsOf(org, direction) ==
    {x \in db.posts : x.org = org /\ x.direction = direction
                        /\ x.account \in ExpenseAccounts(org)}

\* C14 (as claimed): an unfiltered report counts neither a reversed
\* transaction nor its reversal: its total is the DEBIT minus CREDIT balance
\* of the tenant's expense accounts, and its count is the number of
\* non-reversed transactions with a DEBIT on an expense account.
C14_ReportExcludesReversedHistory ==
    \A p \in Procs :
        Reported(p) =>
            /\ Cents(report.total) =
                  SumAmounts(ExpensePostingsOf(call[p].org, "DR"))
                    - SumAmounts(ExpensePostingsOf(call[p].org, "CR"))
            /\ report.count =
                  Cardinality({t \in db.txs :
                      /\ t.org = call[p].org /\ t.rev = NoId
                      /\ \E x \in ExpensePostingsOf(call[p].org, "DR") : x.tx = t.id})

\* C15: an unfiltered report's total is the sum, in minor units and divided
\* by 100 at the end, of the DEBIT postings of the tenant's transactions whose
\* reversal link is null, and its count the number of those transactions
\* that have a DEBIT posting.
LiveTransactions(org) == {t \in db.txs : t.org = org /\ t.rev = NoId}

LiveDebits(org) ==
    {x \in db.posts : x.direction = "DR" /\ \E t \in LiveTransactions(org) : t.id = x.tx}

C15_ReportSumsLiveDebits ==
    \A p \in Procs :
        Reported(p) =>
            /\ report.total.units * 100 + report.total.hundredths
                  = SumAmounts(LiveDebits(call[p].org))
            /\ report.total.hundredths \in 0..99
            /\ report.count =
                  Cardinality({t \in LiveTransactions(call[p].org) :
                                  \E x \in LiveDebits(call[p].org) : x.tx = t.id})

C15_Witness ==
    \E p \in Procs :
        /\ Reported(p)
        /\ report.total = [units |-> 0, hundredths |-> 75] /\ report.count = 1
        /\ \E t \in db.txs : t.org = call[p].org /\ t.rev # NoId

\* C16: no step deletes a committed transaction or posting or changes a
\* posting, and the only field of a committed transaction a step changes is
\* its reversal link.
C16_AppendOnly ==
    [][/\ \A t \in db.txs : \E u \in db'.txs : u.id = t.id /\ [u EXCEPT !.rev = t.rev] = t
       /\ db.posts \subseteq db'.posts]_vars

C16_Witness ==
    \E t \in db.txs : \E r \in db.txs :
        /\ t.rev = r.id /\ r.orig = t.id /\ t.occurredAt = <<2024, 1, 15>>
        /\ Cardinality(PostingsOf(db.posts, t.id)) = 2
        /\ \E q \in Procs : unit[q].txs # {} /\ unit[q].posts # {}

\* C17 (as claimed): once the reversal link of a committed transaction is
\* non-null, no step changes it to another identifier or back to null,
\* whatever the interleaving of reverseTransaction calls.
C17_LinkWrittenOnce ==
    [][\A t \in db.txs : t.rev # NoId =>
          \A u \in db'.txs : u.id = t.id => u.rev = t.rev]_vars

\* C18: a first-time createExpenseTransaction(tenant, amount a, category c)
\* that succeeds leaves exactly two postings on the new transaction: a DEBIT
\* of a on the tenant's expense account for c ('Expense: <c>', or
\* 'Uncategorized Expense' when c is null or empty) tagged with c (no tag when
\* c is null or empty), and a CREDIT of a on the tenant's 'Cash' account, both
\* in the call's currency.
AccountFor(c) ==
    CASE c = "Food" -> "Expense: Food"
      [] c = ""     -> "Uncategorized Expense"
      [] c = "null" -> "Uncategorized Expense"

TagFor(c) == IF c = "Food" THEN "Food" ELSE "null"

FirstCreateDone(p) ==
    /\ Finished(p, "create") /\ pc[p] = "done" /\ ~call[p].nested
    /\ prior[p] = NoId

C18_TwoPostings ==
    \A p \in Procs :
        FirstCreateDone(p) =>
            LET ps == PostingsOf(db.posts, result[p])
                dr == {x \in ps : x.direction = "DR"}
                cr == {x \in ps : x.direction = "CR"} IN
            /\ result[p] # NoId
            /\ Cardinality(ps) = 2 /\ Cardinality(dr) = 1 /\ Cardinality(cr) = 1
            /\ \A x \in dr :
                  /\ x.amountCents = call[p].amountCents
                  /\ x.account = AccountFor(call[p].category)
                  /\ x.category = TagFor(call[p].category)
                  /\ Account(call[p].org, x.account, "EXPENSE",
                             x.account = "Uncategorized Expense") \in db.accts
            /\ \A x \in cr :
                  /\ x.amountCents = call[p].amountCents
                  /\ x.account = "Cash"
                  /\ Account(call[p].org, "Cash", "ASSET", TRUE) \in db.accts
            /\ \A x \in ps : x.currency = call[p].currency /\ x.org = call[p].org

C18_Witness ==
    \E p \in Procs :
        /\ FirstCreateDone(p) /\ call[p].category = "" /\ call[p].amountCents = 75
        /\ \E x \in PostingsOf(db.posts, result[p]) :
              x.direction = "DR" /\ x.account = "Uncategorized Expense"
        /\ \E y \in db.posts :
              y.account = "Expense: Food" /\ y.category = "Food" /\ y.org = call[p].org

\* C19: after an ensureDefaultAccounts(tenant) that returned, the tenant has
\* exactly one 'Cash' account (ASSET, system) and exactly one 'Uncategorized
\* Expense' account (EXPENSE, system), however many calls came before; a call
\* that begins with both present reaches no create and no audit statement,
\* writes nothing and returns.
DefaultsOf(org) == {a \in db.accts : a.org = org /\ a.name \in {"Cash", "Uncategorized Expense"}}

C19_EnsureIdempotent ==
    \A p \in Procs :
        /\ (Finished(p, "ensure") /\ pc[p] = "done") =>
              DefaultsOf(call[p].org) =
                  { Account(call[p].org, "Cash", "ASSET", TRUE),
                    Account(call[p].org, "Uncategorized Expense", "EXPENSE", TRUE) }
        /\ (call[p].op = "ensure" /\ prior[p] = 2) =>
              /\ pc[p] \notin {"e_cash_create", "e_uncat_create"}
              /\ inner[p] = {} /\ landed[p] = EmptyDb
              /\ (Resting(p) /\ err[p] # "StorageError") => pc[p] = "done"

C19_Witness ==
    \E p \in Procs :
        /\ Finished(p, "ensure") /\ pc[p] = "done" /\ prior[p] = 2
        /\ Cardinality(DefaultsOf(call[p].org)) = 2
        /\ \E a \in db.accts : a.org = call[p].org /\ ~a.isSystem

\* C20 (as claimed): when ensureDefaultAccounts calls for one tenant run
\* concurrently and both find an account absent, each call the store does
\* not otherwise reject returns (the loser's 'already exists' conflict is not
\* raised), and one account of each name exists afterwards.
C20_ConcurrentEnsureBothSucceed ==
    \A p \in Procs :
        (Finished(p, "ensure") /\ err[p] # "StorageError") =>
            /\ pc[p] = "done"
            /\ Cardinality(DefaultsOf(call[p].org)) = 2

\* C21: a call of getOrCreateExpenseAccount with a non-empty category returns
\* the tenant's 'Expense: <category>' account, inserting it as a non-system
\* EXPENSE account only when the tenant has none yet and writing nothing
\* otherwise; with a null category it returns 'Uncategorized Expense' when the
\* tenant has it and writes nothing, and when the tenant lacks it the call
\* fails with the not-found error and writes nothing. getCashAccount returns
\* exactly when the tenant has 'Cash', fails with the not-found error
\* otherwise, and writes nothing either way.
ResolvedName(category) ==
    IF category = NoCategory THEN "Uncategorized Expense" ELSE "Expense: " \o category

C21_AccountResolution ==
    \A p \in Procs :
        /\ Finished(p, "account") =>
              LET org == call[p].org
                  name == ResolvedName(call[p].category)
                  row == [org |-> org, name |-> name, type |-> "EXPENSE", isSystem |-> FALSE] IN
              /\ (call[p].category # NoCategory \/ prior[p] = 1) =>
                    /\ pc[p] = "done"
                    /\ local[p].account = name
                    /\ \E a \in db.accts : a.org = org /\ a.name = name
                    /\ landed[p] = [EmptyDb EXCEPT !.accts = IF prior[p] = 1 THEN {} ELSE {row}]
              /\ (call[p].category = NoCategory /\ prior[p] = 0) =>
                    /\ pc[p] = "failed" /\ err[p] = "NotFound"
                    /\ landed[p] = EmptyDb
                    /\ ~ \E a \in db.accts : a.org = org /\ a.name = name
        /\ Finished(p, "cash") =>
              /\ landed[p] = EmptyDb
              /\ IF prior[p] = 1
                   THEN pc[p] = "done"
                   ELSE /\ pc[p] = "failed" /\ err[p] = "NotFound"
                        /\ ~ \E a \in db.accts : a.org = call[p].org /\ a.name = "Cash"

C21_Witness ==
    \E p \in Procs :
        /\ Finished(p, "account") /\ pc[p] = "failed" /\ err[p] = "NotFound"
        /\ call[p].category = NoCategory
        /\ \E a \in db.accts : a.name = "Expense: Food" /\ ~a.isSystem
        /\ \E a \in db.accts : a.name = "Cash" /\ a.org # call[p].org

\* C22: when reverseTransaction loads its target and no transaction has the
\* given identifier, the call fails with the not-found error; when the target
\* belongs to another tenant, it fails with the tenant-mismatch error; in both
\* cases the committed transactions, postings and reversal links of every
\* tenant stay as they were and the call's unit holds no write.
TargetsOf(p) == {t \in View(p).txs : t.id = call[p].transactionId}

C22_Rejects(p) ==
    (/\ call[p].op = "reverse" /\ pc[p] = "r_load" /\ pc'[p] # "r_load"
     /\ err'[p] # "StorageError"
     /\ \A t \in TargetsOf(p) : t.org # call[p].org)
    => /\ pc'[p] = "failed"
       /\ err'[p] = (IF TargetsOf(p) = {} THEN "NotFound" ELSE "TenantMismatch")
       /\ result'[p] = NoId
       /\ db' = db
       /\ unit'[p] = EmptyUnit /\ landed'[p] = EmptyDb

C22_MissingOrForeignTargetRejected == [][\A p \in Procs : C22_Rejects(p)]_vars

C22_Witness ==
    \E p \in Procs :
        /\ Finished(p, "reverse") /\ err[p] = "TenantMismatch"
        /\ \E t \in db.txs : t.id = call[p].transactionId /\ t.org # call[p].org /\ t.rev = NoId
        /\ \E t \in db.txs : t.org = call[p].org /\ t.rev = NoId

\* C23: every account, transaction, posting and lock a call for tenant T
\* writes carries T; every committed posting carries the tenant of its
\* transaction and names an account of that tenant; a reversal carries the
\* tenant of its original; and no step of a call made for another tenant
\* changes what the report of T returns.
RowsCarry(rows, org) ==
    /\ \A a \in rows.accts : a.org = org
    /\ \A t \in rows.txs : t.org = org
    /\ \A x \in rows.posts : x.org = org
    /\ \A l \in rows.locks : l.org = org

C23_RowsCarryTenant ==
    /\ \A p \in Procs :
          /\ RowsCarry([unit[p] EXCEPT !.accts = @ \cup inner[p]], call[p].org)
          /\ RowsCarry([landed[p] EXCEPT !.txs = {t \in db.txs : t.id \in landed[p].txs}],
                       call[p].org)
          /\ \A l \in unit[p].links :
                \E t \in db.txs : t.id = l[1] /\ t.org = call[p].org
    /\ \A x \in db.posts :
          /\ \E t \in db.txs : t.id = x.tx /\ t.org = x.org
          /\ \E a \in db.accts : a.org = x.org /\ a.name = x.account
    /\ \A r \in db.txs : r.orig # NoId =>
          \E t \in db.txs : t.id = r.orig /\ t.org = r.org

C23_ReportUntouched ==
    \A T \in Orgs : call'["p1"].org # T => LedgerReport(T)' = LedgerReport(T)

C23_TenantIsolation == []C23_RowsCarryTenant /\ [][C23_ReportUntouched]_vars

C23_Witness ==
    /\ report.org = "T1" /\ report.count = 1
    /\ \E t \in db.txs : t.org = "T1" /\ t.rev = NoId
    /\ \E t \in db.txs : t.org = "T2" /\ t.rev = NoId
    /\ \E x \in db.posts : x.org = "T2" /\ x.direction = "DR"

\* C24: whether the audit write succeeds or fails, a call of
\* createExpenseTransaction, reverseTransaction, lockPeriod or
\* ensureDefaultAccounts standing at a statement that records an audit event
\* can take it, and taking it leaves the committed rows and the call's unit as
\* they were (ensureDefaultAccounts adds the account it was creating), moves
\* the call to its next statement and returns the identifier it would return
\* with the audit write succeeding; only the audit rows differ.
AuditPoints == {"c_audit", "r_audit", "l_audit", "e_cash_create", "e_uncat_create"}

C24_AuditStatementCompletes ==
    \A p \in Procs :
        /\ pc[p] = "c_audit" => ENABLED CreatedAudit(p)
        /\ pc[p] = "r_audit" => ENABLED ReversedAudit(p)
        /\ pc[p] = "l_audit" => ENABLED LockAudit(p)
        /\ (pc[p] = "e_cash_create" /\ ~AccountCommitted(call[p].org, "Cash")) =>
              ENABLED EnsureCreateCash(p)
        /\ (pc[p] = "e_uncat_create"
              /\ ~AccountCommitted(call[p].org, "Uncategorized Expense")) =>
              ENABLED EnsureCreateUncategorized(p)

C24_AuditStep(p) ==
    (pc[p] \in AuditPoints /\ pc'[p] # pc[p] /\ err'[p] = "") =>
        /\ db' = db /\ unit' = unit /\ landed' = landed
        /\ pc[p] = "c_audit" =>
              pc'[p] = "c_commit" /\ result'[p] = local[p].tx /\ inner' = inner
        /\ pc[p] = "r_audit" =>
              pc'[p] = "c_commit" /\ result'[p] = local[p].tx /\ inner' = inner
        /\ pc[p] = "l_audit" => pc'[p] = "c_commit" /\ inner' = inner
        /\ pc[p] = "e_cash_create" =>
              /\ pc'[p] = "e_uncat"
              /\ inner'[p] = inner[p] \cup {Account(call[p].org, "Cash", "ASSET", TRUE)}
        /\ pc[p] = "e_uncat_create" =>
              /\ pc'[p] = "e_commit"
              /\ inner'[p] = inner[p]
                    \cup {Account(call[p].org, "Uncategorized Expense", "EXPENSE", TRUE)}
        /\ audit' = audit \/ sinkUp

C24_AuditBestEffort ==
    []C24_AuditStatementCompletes /\ [][\A p \in Procs : C24_AuditStep(p)]_vars

C24_Witness ==
    \E p \in Procs :
        /\ ~sinkUp /\ audit = {}
        /\ Finished(p, "lock") /\ pc[p] = "done" /\ landed[p].locks # {}
        /\ \E t \in db.txs : t.rev # NoId /\ t.org = call[p].org
        /\ \E a \in db.accts : a.org = call[p].org /\ a.isSystem

\* C25: when PATCH reads the lock of the stored date's period, or of the
\* requested new date's period, and the tenant has it locked, the request
\* fails with the period-locked error; up to and including that statement
\* the request has written no ledger row and no expense row.
C25_GuardHits(p) ==
    \/ pc[p] = "g_guard" /\ LockRowFor(call[p].org, call[p].occurredAt)
    \/ /\ pc[p] = "g_guard_new" /\ call[p].newDate # NoDate
       /\ LockRowFor(call[p].org, call[p].newDate)

C25_Rejects(p) ==
    (/\ call[p].op = "patch" /\ C25_GuardHits(p)
     /\ pc'[p] # pc[p] /\ err'[p] # "StorageError")
    => /\ pc'[p] = "failed" /\ err'[p] = "PeriodLocked"
       /\ db' = db /\ unit'[p] = EmptyUnit /\ inner'[p] = {} /\ landed'[p] = EmptyDb

C25_NothingWrittenYet ==
    \A p \in Procs :
        (call[p].op = "patch"
           /\ (pc[p] \in {"x_find", "g_guard", "g_guard_new"} \/ err[p] = "PeriodLocked"))
        => (unit[p] = EmptyUnit /\ inner[p] = {} /\ landed[p] = EmptyDb)

C25_PatchRejectedWhenLocked ==
    []C25_NothingWrittenYet /\ [][\A p \in Procs : C25_Rejects(p)]_vars

C25_Witness ==
    \E p \in Procs :
        /\ Finished(p, "patch") /\ err[p] = "PeriodLocked"
        /\ call[p].newDate # NoDate
        /\ LockRowFor(call[p].org, call[p].newDate)
        /\ ~LockRowFor(call[p].org, call[p].occurredAt)
        /\ \E e \in db.exps : /\ e.id = call[p].expense /\ e.date = call[p].occurredAt
                               /\ \E t \in db.txs : t.id = e.ltx /\ t.rev = NoId

\* C26: when a PATCH of an expense linked to ledger transaction t succeeds, t
\* carries a reversal link to a reversal of t, a new transaction t' that is
\* neither a reversal nor reversed carries the request's date and amount
\* (the stored ones where the request has none) on two postings, and the
\* expense points to t' and carries the same date and amount; no statement of
\* a PATCH other than its last commits a transaction, a posting or an expense
\* row, so a PATCH that fails leaves t, the ledger and the expense as they were.
Superseded(p) ==
    /\ Finished(p, "patch") /\ pc[p] = "done" /\ call[p].transactionId # NoId

C26_Superseded(p) ==
    \E t \in db.txs, n \in db.txs, e \in db.exps :
        /\ t.id = call[p].transactionId /\ t.rev # NoId
        /\ \E r \in db.txs : r.id = t.rev /\ r.orig = t.id /\ r.org = t.org
        /\ n.id = result[p] /\ n.id # t.id /\ n.orig = NoId /\ n.rev = NoId
        /\ n.org = call[p].org
        /\ n.occurredAt = (IF call[p].newDate # NoDate THEN call[p].newDate ELSE t.occurredAt)
        /\ Cardinality(PostingsOf(db.posts, n.id)) = 2
        /\ \A x \in PostingsOf(db.posts, n.id) :
              IF call[p].newAmount # 0
                THEN x.amountCents = call[p].newAmount
                ELSE \A y \in PostingsOf(db.posts, t.id) : x.amountCents = y.amountCents
        /\ e.id = call[p].expense /\ e.ltx = n.id /\ e.date = n.occurredAt
        /\ \A x \in PostingsOf(db.posts, n.id) : e.amountCents = x.amountCents

C26_OnlyLastStatementCommits ==
    \A p \in Procs :
        (call'[p].op = "patch" /\ pc'[p] # "done") =>
            (db'.txs = db.txs /\ db'.posts = db.posts /\ db'.exps = db.exps)

C26_SupersedeAtomic ==
    /\ [](\A p \in Procs : Superseded(p) => C26_Superseded(p))
    /\ [](\A p \in Procs : (Finished(p, "patch") /\ pc[p] = "failed") =>
              (landed[p].txs = {} /\ landed[p].posts = {} /\ landed[p].exps = {}))
    /\ [][C26_OnlyLastStatementCommits]_vars

C26_Witness ==
    \E p \in Procs :
        /\ Superseded(p) /\ call[p].newAmount = 2
        /\ \E t \in db.txs : /\ t.id = call[p].transactionId /\ t.rev # NoId
                              /\ \E y \in PostingsOf(db.posts, t.id) : y.amountCents = 1
        /\ \E e \in db.exps : e.id = call[p].expense /\ e.ltx = result[p] /\ e.amountCents = 2

\* C27 (as claimed): no step removes an expense row; when a DELETE of an
\* expense linked to transaction t succeeds, the row still exists with
\* deletedAt set and t carries a reversal link; and no statement of a DELETE
\* other than its last commits a transaction, a posting or an expense row, so
\* a failed soft-delete leaves t unreversed and a failed reversal leaves
\* deletedAt null.
C27_SoftDeleted(p) ==
    (Finished(p, "delete") /\ pc[p] = "done" /\ call[p].transactionId # NoId) =>
        /\ \E e \in db.exps : e.id = call[p].expense /\ e.deleted
        /\ \E t \in db.txs : t.id = call[p].transactionId /\ t.rev # NoId

C27_NoRowRemoved == \A e \in db.exps : \E f \in db'.exps : f.id = e.id

C27_OnlyLastStatementCommits ==
    \A p \in Procs :
        (call'[p].op = "delete" /\ pc'[p] # "done") =>
            (db'.txs = db.txs /\ db'.posts = db.posts /\ db'.exps = db.exps)

C27_DeleteSoftAndAtomic ==
    /\ [](\A p \in Procs : C27_SoftDeleted(p))
    /\ [][C27_NoRowRemoved /\ C27_OnlyLastStatementCommits]_vars

\* C29 (as claimed): whatever organizationId the request body carries, the
\* expense a POST creates belongs to the actor's organization, and no step
\* changes the organization of an existing expense.
C29_CreatedInActorsOrg ==
    \A p \in Procs :
        (Finished(p, "create") /\ call[p].route = "post" /\ pc[p] = "done") =>
            \E e \in db.exps : e.id = result[p] /\ e.org = call[p].org

C29_OrganizationKept ==
    \A e \in db.exps : \A f \in db'.exps : f.id = e.id => f.org = e.org

C29_OrganizationNeverFromClient ==
    []C29_CreatedInActorsOrg /\ [][C29_OrganizationKept]_vars

\* C30: when GET, PATCH or DELETE looks up an expense id whose row belongs to
\* an organization other than the actor's, the request answers 'Expense not
\* found', returns nothing, and the step leaves every committed row (the
\* expense and the ledger of the other organization among them) as it was,
\* with nothing written in the request's unit.
ForeignExpense(p) ==
    /\ call[p].route \in {"get", "patch", "delete"}
    /\ pc[p] \in {"x_get", "x_find"}
    /\ \E e \in db.exps : e.id = call[p].expense /\ e.org # call[p].org

C30_Rejects(p) ==
    (ForeignExpense(p) /\ pc'[p] # pc[p] /\ err'[p] # "StorageError") =>
        /\ pc'[p] = "failed" /\ err'[p] = "ExpenseNotFound" /\ result'[p] = NoId
        /\ db' = db
        /\ unit'[p] = EmptyUnit /\ inner'[p] = {} /\ landed'[p] = EmptyDb

C30_ForeignExpenseNotFound == [][\A p \in Procs : C30_Rejects(p)]_vars

C30_Witness ==
    \E p \in Procs :
        /\ Finished(p, "delete") /\ err[p] = "ExpenseNotFound"
        /\ \E e \in db.exps :
              /\ e.id = call[p].expense /\ e.org # call[p].org /\ ~e.deleted
              /\ \E t \in db.txs : t.id = e.ltx /\ t.rev = NoId
        /\ \E e \in db.exps : e.org = call[p].org

\* C28: over any number of backfill runs, crashed or not, no expense ever has
\* more than one ledger transaction with the key 'backfill:expense:<its id>'
\* and every transaction the backfill made carries the key of an expense of
\* its tenant; an expense that is linked is linked to that one transaction,
\* which carries its date and amount; and when a run ends with no error
\* caught, every non-deleted expense is linked.
BackfillTxs(e) == {t \in db.txs : t.key = <<"backfill:expense", e.id>>}

C28_AtMostOnePerExpense ==
    /\ \A e \in db.exps : Cardinality(BackfillTxs(e)) <= 1
    /\ \A t \in db.txs : \E e \in db.exps : t \in BackfillTxs(e) /\ t.org = e.org

C28_LinkedToItsOwn ==
    \A e \in db.exps : e.ltx # NoId =>
        \E t \in BackfillTxs(e) :
            /\ t.id = e.ltx /\ t.occurredAt = e.date /\ t.rev = NoId
            /\ Cardinality(PostingsOf(db.posts, t.id)) = 2
            /\ \A x \in PostingsOf(db.posts, t.id) : x.amountCents = e.amountCents

C28_AllLinkedAfterRun ==
    \A p \in Procs :
        (Finished(p, "backfill") /\ pc[p] = "done" /\ err[p] = "") =>
            \A e \in db.exps : ~e.deleted => e.ltx # NoId

C28_BackfillRerunSafe ==
    C28_AtMostOnePerExpense /\ C28_LinkedToItsOwn /\ C28_AllLinkedAfterRun

C28_Witness ==
    \E p \in Procs :
        /\ Finished(p, "backfill") /\ pc[p] = "done" /\ err[p] = "" /\ prior[p] > 0
        /\ Cardinality(db.exps) >= 2
        /\ \A e \in db.exps : e.ltx # NoId /\ Cardinality(BackfillTxs(e)) = 1

\* ------------------------------------------------- organization core
Roles == {"VIEWER", "MEMBER", "ADMIN", "OWNER"}

\* the number of membership rows a run creates at most
MaxMembers == 2

ROLE_RANK ==
    [r \in Roles |-> CASE r = "VIEWER" -> 0
                       [] r = "MEMBER" -> 1
                       [] r = "ADMIN"  -> 2
                       [] r = "OWNER"  -> 3]

\* (a comparison that demands a strictly higher rank)
roleGteStrict(a, b) == ROLE_RANK[a] > ROLE_RANK[b]

roleGte(a, b) == ROLE_RANK[a] >= ROLE_RANK[b]

\* membership.findUnique({ userId_organizationId })
MembershipOf(u, o) == {m \in membership : m.user = u /\ m.org = o}

\* membership.findFirst({ where: { userId }, orderBy: { createdAt: "asc" } })
FirstMembership(u) ==
    {m \in membership : /\ m.user = u
                        /\ \A n \in membership : n.user = u => m.createdAt <= n.createdAt}

\* (a lookup that accepts a membership of the user in any organization)
AssertMemberAnyOrg(u, o) ==
    IF \E m \in membership : m.user = u
        THEN (CHOOSE m \in membership : m.user = u).role
        ELSE NoRole

\* the role assertMember returns, NoRole when it throws
AssertMember(u, o) ==
    IF MembershipOf(u, o) = {}
        THEN NoRole
        ELSE (CHOOSE m \in MembershipOf(u, o) : TRUE).role

OrgOutcome(op, u, o, minRole, res, e, st) ==
    [op |-> op, user |-> u, org |-> o, minRole |-> minRole,
     result |-> res, err |-> e, status |-> st, before |-> activeOrg[u]]

\* membership.upsert with an empty update: an existing row is left as it is
UpsertMembership(u, o, r) ==
    /\ MembershipOf(u, o) # {} \/ Cardinality(membership) < MaxMembers
    /\ membership' = IF MembershipOf(u, o) # {}
                        THEN membership
                        ELSE membership \cup
                             {[user |-> u, org |-> o, role |-> r,
                               createdAt |-> Cardinality(membership) + 1]}
    /\ orgCall' = OrgOutcome("upsert", u, o, NoRole, "", "", 200)
    /\ UNCHANGED activeOrg

GetActiveOrgId(u) ==
    LET active == activeOrg[u]
        first  == FirstMembership(u)
    IN  /\ UNCHANGED membership
        /\ IF active # NoOrg /\ MembershipOf(u, active) # {}
              THEN /\ orgCall' = OrgOutcome("get", u, NoOrg, NoRole, active, "", 200)
                   /\ UNCHANGED activeOrg
              ELSE IF first = {}
                  THEN /\ orgCall' = OrgOutcome("get", u, NoOrg, NoRole, "",
                                         "User is not a member of any organization", 403)
                       /\ UNCHANGED activeOrg
                  ELSE LET org == (CHOOSE m \in first : TRUE).org
                       IN  /\ activeOrg' = [activeOrg EXCEPT ![u] = org]
                           /\ orgCall' = OrgOutcome("get", u, NoOrg, NoRole, org, "", 200)

SetActiveOrgId(u, o) ==
    /\ UNCHANGED membership
    /\ IF AssertMember(u, o) = NoRole
          THEN /\ orgCall' = OrgOutcome("set", u, o, NoRole, "",
                                 "Not a member of this organization", 403)
               /\ UNCHANGED activeOrg
          ELSE /\ activeOrg' = [activeOrg EXCEPT ![u] = o]
               /\ orgCall' = OrgOutcome("set", u, o, NoRole, "", "", 200)

RequireRole(u, o, minRole) ==
    LET role == AssertMember(u, o)
    IN  /\ UNCHANGED <<membership, activeOrg>>
        /\ IF role = NoRole
              THEN orgCall' = OrgOutcome("require", u, o, minRole, "",
                                  "Not a member of this organization", 403)
              ELSE IF ~roleGte(role, minRole)
                  THEN orgCall' = OrgOutcome("require", u, o, minRole, "",
                                      "Insufficient permissions", 403)
                  ELSE orgCall' = OrgOutcome("require", u, o, minRole, role, "", 200)

\* one caller at a time: transactions created and reversed, and reports with
\* filters and groupBy
WorkloadReport ==
    [orgs |-> {"T1"}, keys |-> {"k1", "k2"}, categories |-> {NoCategory, "Food", "constructor"},
     amounts |-> {50}, dates |-> Dates, nows |-> {<<2024, 2, 1>>}, users |-> {"u1"},
     periods |-> {"2024-01"}, vendors |-> {NoVendor, "Acme"},
     dateFilters |-> {NoDate, <<2024, 2, 1>>},
     categoryFilters |-> {"", "Food"}, vendorFilters |-> {"", "Acme"}]

NextReport ==
    \/ /\ UNCHANGED <<sinkUp, membership, activeOrg, orgCall>>
       /\ report' = NoReport
       /\ \/ CreateExpenseTransaction("p1", WorkloadReport)
          \/ ReverseTransaction("p1", WorkloadReport)
          \/ Steps("p1")
    \/ GetFilteredReport("p1", WorkloadReport)
    \/ RunFilteredReport("p1")

InitReport == Init /\ sinkUp

SpecReport == InitReport /\ [][NextReport]_vars

\* POST by one caller, then PATCH and DELETE by two callers at once
WorkloadRace ==
    [orgs |-> {"T1"}, keys |-> UserKeys, categories |-> {NoCategory}, amounts |-> {1},
     dates |-> {<<2024, 1, 15>>}, nows |-> {<<2024, 2, 1>>}, users |-> {"u1"},
     periods |-> {"2024-01"}]

NextRace ==
    /\ UNCHANGED <<sinkUp, membership, activeOrg, orgCall>>
    /\ report' = NoReport
    /\  \/ PostExpense("p1", WorkloadRace)
        \/ \E p \in Procs :
              \/ PatchExpense(p, WorkloadRace)
              \/ DeleteExpense(p, WorkloadRace)
              \/ HandlerSteps(p)
              \/ Steps(p)

InitRace == Init /\ sinkUp

SpecRace == InitRace /\ [][NextRace]_vars

\* createExpenseTransaction called concurrently with different keys, on a
\* tenant whose default accounts ensureDefaultAccounts has made before
WorkloadCategory ==
    [orgs |-> {"T1"}, keys |-> {"k1", "k2"}, categories |-> {"Food", "Fuel"}, amounts |-> {1},
     dates |-> {<<2024, 1, 15>>}, nows |-> {<<2024, 2, 1>>}, users |-> {"u1"},
     periods |-> {"2024-01"}]

InitBootstrapped ==
    /\ db = [EmptyDb EXCEPT !.accts = {Account("T1", CashName, "ASSET", TRUE),
                                      Account("T1", UncatName, "EXPENSE", TRUE)}]
    /\ unit = [p \in Procs |-> EmptyUnit]
    /\ inner = [p \in Procs |-> {}]
    /\ audit = {[org |-> "T1", action |-> "ACCOUNT_CREATED", entity |-> CashName],
                [org |-> "T1", action |-> "ACCOUNT_CREATED", entity |-> UncatName]}
    /\ pc = [p \in Procs |-> "idle"]
    /\ call = [p \in Procs |-> NoCall]
    /\ local = [p \in Procs |-> NoLocal]
    /\ result = [p \in Procs |-> NoId]
    /\ err = [p \in Procs |-> ""]
    /\ prior = [p \in Procs |-> NoId]
    /\ landed = [p \in Procs |-> EmptyDb]
    /\ calls = 0
    /\ sinkUp = TRUE
    /\ report = NoReport
    /\ membership = {}
    /\ activeOrg = [u \in Users |-> NoOrg]
    /\ orgCall = NoOrgCall

NextCategory ==
    /\ UNCHANGED <<sinkUp, membership, activeOrg, orgCall>>
    /\ report' = NoReport
    /\ \E p \in Procs :
          \/ CreateExpenseTransaction(p, WorkloadCategory)
          \/ FindExisting(p)
          \/ EnsureFindCash(p)
          \/ EnsureFindUncategorized(p)
          \/ EnsureCommit(p)
          \/ FindExpenseAccount(p)
          \/ CreateExpenseAccount(p)
          \/ GetCashAccount(p)
          \/ CreateTransactionRow(p)
          \/ CreatePostings(p)
          \/ CreatedAudit(p)
          \/ CommitOwnUnit(p)

SpecCategory == InitBootstrapped /\ [][NextCategory]_vars

\* lockPeriod called concurrently
WorkloadLockRace ==
    [orgs |-> Orgs, keys |-> UserKeys, categories |-> {NoCategory}, amounts |-> {1},
     dates |-> Dates, nows |-> {<<2024, 2, 1>>}, users |-> Users, periods |-> Periods]

NextLockRace ==
    /\ UNCHANGED <<sinkUp, membership, activeOrg, orgCall>>
    /\ report' = NoReport
    /\ \E p \in Procs :
          \/ LockPeriod(p, WorkloadLockRace)
          \/ LockSteps(p)
          \/ CommitOwnUnit(p)

SpecLockRace == Init /\ [][NextLockRace]_vars

\* organization-core calls made one after another
NextOrg ==
    /\ UNCHANGED <<db, unit, inner, audit, pc, call, local, result, err, prior, landed,
                   calls, sinkUp, report>>
    /\ \E u \in Users :
        \/ \E o \in Orgs, r \in Roles : UpsertMembership(u, o, r)
        \/ GetActiveOrgId(u)
        \/ \E o \in Orgs : SetActiveOrgId(u, o)
        \/ \E o \in Orgs, minRole \in Roles : RequireRole(u, o, minRole)

InitOrg == Init /\ sinkUp

SpecOrg == InitOrg /\ [][NextOrg]_vars

\* ---- C31
IsMember(u, o) == MembershipOf(u, o) # {}

C31_SetOutcome ==
    orgCall.op = "set" =>
        IF IsMember(orgCall.user, orgCall.org)
            THEN /\ orgCall.status = 200
                 /\ activeOrg[orgCall.user] = orgCall.org
            ELSE /\ orgCall.status = 403
                 /\ activeOrg[orgCall.user] = orgCall.before

C31_GetOutcome ==
    orgCall.op = "get" =>
        IF \E o \in Orgs : IsMember(orgCall.user, o)
            THEN /\ orgCall.status = 200
                 /\ orgCall.result \in Orgs
                 /\ IsMember(orgCall.user, orgCall.result)
                 /\ activeOrg[orgCall.user] = orgCall.result
            ELSE orgCall.status = 403

C31_GetKeepsValidChoice ==
    \A u \in Users :
        (/\ orgCall'.op = "get" /\ orgCall'.user = u
         /\ activeOrg[u] # NoOrg /\ IsMember(u, activeOrg[u]))
        => /\ orgCall'.status = 200
           /\ orgCall'.result = activeOrg[u]
           /\ activeOrg'[u] = activeOrg[u]

\* C31: setActiveOrgId succeeds exactly when the user is a member of the
\* organization and then stores it, and fails with 403 leaving the stored
\* active organization as it was otherwise; getActiveOrgId returns the stored
\* organization while the user's membership of it exists, always returns an
\* organization the user is a member of, and fails with 403 when the user has
\* no membership.
C31_ActiveOrgIsMembership ==
    /\ [](C31_SetOutcome /\ C31_GetOutcome)
    /\ [][C31_GetKeepsValidChoice]_vars

\* a user whose oldest membership is T1 chose T2, and getActiveOrgId returned T2
C31_Witness ==
    /\ orgCall.op = "get" /\ orgCall.status = 200 /\ orgCall.result = "T2"
    /\ \E m \in FirstMembership(orgCall.user) : m.org = "T1"

\* ---- C32
RoleOrder == <<"VIEWER", "MEMBER", "ADMIN", "OWNER">>

PlaceOf(r) == CHOOSE i \in 1..Len(RoleOrder) : RoleOrder[i] = r

HeldRole(u, o) == (CHOOSE m \in MembershipOf(u, o) : TRUE).role

\* C32: requireRole(user, org, minRole) returns the user's role exactly when
\* the user is a member of org and that role stands at or above minRole in
\* VIEWER < MEMBER < ADMIN < OWNER; in every other case it fails with 403.
C32_RequireRoleExact ==
    orgCall.op = "require" =>
        IF /\ IsMember(orgCall.user, orgCall.org)
           /\ PlaceOf(HeldRole(orgCall.user, orgCall.org)) >= PlaceOf(orgCall.minRole)
            THEN /\ orgCall.status = 200
                 /\ orgCall.result = HeldRole(orgCall.user, orgCall.org)
            ELSE /\ orgCall.status = 403
                 /\ orgCall.result = ""

\* a member whose role equals the demanded one was let through
C32_Witness ==
    /\ orgCall.op = "require" /\ orgCall.status = 200
    /\ orgCall.minRole = "ADMIN" /\ orgCall.result = "ADMIN"

\* ---- C33
\* caller p is inside a standalone createExpenseTransaction whose key had a
\* committed transaction when the call began
RetryOf(p) ==
    /\ call[p].op = "create" /\ call[p].route = "none"
    /\ prior[p] # NoId

C33_NoWriteStep(p) ==
    (RetryOf(p) /\ ~Resting(p) /\ pc'[p] # pc[p]) =>
        /\ db' = db
        /\ audit' = audit
        /\ unit'[p] = EmptyUnit
        /\ inner'[p] = {}
        /\ pc'[p] \in {"c_commit", "done", "failed"}
        /\ pc'[p] = "done" => result'[p] = prior[p] /\ landed'[p] = EmptyDb

\* C33: a createExpenseTransaction call that finds a transaction for its
\* (tenant, idempotencyKey) writes nothing: no step of it changes committed
\* storage, its unit, the bootstrap's unit or the audit log, and it goes from
\* the lookup straight to its return.
C33_RetryWritesNothing == [][\A p \in Procs : C33_NoWriteStep(p)]_vars

\* a retry with another category and amount returned the first transaction
C33_Witness ==
    \E p \in Procs :
        /\ Finished(p, "create") /\ RetryOf(p) /\ pc[p] = "done"
        /\ result[p] = prior[p]
        /\ \E x \in db.posts : x.tx = prior[p] /\ x.category # call[p].category
        /\ Cardinality({a \in audit : a.action = "LEDGER_TX_CREATED"}) = 1

\* ---- C34
Grouped == "groups" \in DOMAIN report /\ report.filters.groupBy # ""

RECURSIVE SumGroups(_, _)
SumGroups(groups, keys) ==
    IF keys = {} THEN 0
    ELSE LET k == CHOOSE x \in keys : TRUE IN
         100 * groups[k].units + groups[k].hundredths + SumGroups(groups, keys \ {k})

\* C34: the group totals of a grouped report are numbers and add up to the
\* total of the ungrouped report of the same tenant with the same filters,
\* whichever of month, category or vendor the report is grouped by.
C34_GroupsSumToTotal ==
    Grouped =>
        /\ \A k \in DOMAIN report.groups : ~report.groups[k].nan
        /\ SumGroups(report.groups, DOMAIN report.groups)
             = Cents(UngroupedReport(report.org, report.filters).total)

\* ---- C35
\* C35: in committed storage a transaction t carries reversal link r exactly
\* when transaction r exists in t's tenant with original link t: every forward
\* link points to an existing reversal of t, and every reversal's original
\* exists and points back to it.
C35_LinksMutual ==
    \A t \in db.txs :
        /\ t.rev # NoId =>
              \E r \in db.txs : r.id = t.rev /\ r.org = t.org /\ r.orig = t.id
        /\ t.orig # NoId =>
              \E o \in db.txs : o.id = t.orig /\ o.org = t.org /\ o.rev = t.id

\* ---- C36
\* C36: every LEDGER_TX_CREATED or LEDGER_TX_REVERSED audit event names a
\* transaction that is committed, or still written in a unit of work that
\* has neither committed nor aborted; once the unit that made the
\* transaction has aborted, no audit event for it is left.
C36_AuditNamesStoredTransaction ==
    \A a \in audit :
        a.action \in {"LEDGER_TX_CREATED", "LEDGER_TX_REVERSED"} =>
            \E t \in db.txs \cup UNION {unit[p].txs : p \in Procs} : t.id = a.entity

\* ---- C37
\* the transactions that stand for an expense amount: made by POST or PATCH,
\* not reversed, not a reversal
LiveExpenseTxs ==
    {t \in db.txs : t.key[1] = "expense" /\ t.rev = NoId /\ t.orig = NoId}

\* C37: when every request has ended and the tenant has a single expense, at
\* most one live transaction stands for it and that one is the transaction
\* the expense points to; a soft-deleted expense has none.
C37_OneLiveTransaction ==
    ((\A p \in Procs : Resting(p)) /\ Cardinality(db.exps) = 1) =>
        \A e \in db.exps :
            /\ Cardinality(LiveExpenseTxs) <= 1
            /\ \A t \in LiveExpenseTxs : ~e.deleted /\ e.ltx = t.id

\* ---- C38
CategoryAccounts(org, category) ==
    {a \in db.accts : a.org = org /\ a.name = ExpenseAccountName(category)}

DebitOn(id, name) ==
    \A x \in db.posts : (x.tx = id /\ x.direction = "DR") => x.account = name

\* C38: when two createExpenseTransaction calls of one tenant with different
\* idempotency keys and the same category, for which the tenant had no account,
\* have ended, both have succeeded, the tenant has exactly one
\* 'Expense: <category>' account and the DEBIT postings of both transactions
\* are on it.
C38_SameNewCategoryBothSucceed ==
    \A p \in Procs : \A q \in Procs :
        (/\ p # q /\ Finished(p, "create") /\ Finished(q, "create")
         /\ call[p].org = call[q].org /\ call[p].category = call[q].category
         /\ ~Falsy(call[p].category)
         /\ call[p].key # call[q].key
         /\ prior[p] = NoId /\ prior[q] = NoId)
        => /\ pc[p] = "done" /\ pc[q] = "done"
           /\ Cardinality(CategoryAccounts(call[p].org, call[p].category)) = 1
           /\ DebitOn(result[p], ExpenseAccountName(call[p].category))
           /\ DebitOn(result[q], ExpenseAccountName(call[p].category))

\* ---- C39
\* C39: every lockPeriod call, also one that ran while another call was
\* locking the same (tenant, period), ends without error, and one lock row
\* exists for its (tenant, period) afterwards.
C39_ConcurrentLocksBothComplete ==
    \A p \in Procs :
        Finished(p, "lock") =>
            /\ pc[p] = "done" /\ err[p] = ""
            /\ Cardinality(LocksOf(call[p].org, call[p].period)) = 1
====
